---- MODULE Spec2Model ----
(***************************************************************************)
(* A model of page-dewarp-js: span assembly (src/spans.js), the parameter  *)
(* vector and the keypoint index (src/keypoints.js), the cubic-surface     *)
(* projection (src/projection.js), the planar pose estimate (solvepnp),    *)
(* Powell's method with Brent line searches (optimise.js) and the pixel /  *)
(* normalized coordinate conversions (src/utils.js).                       *)
(*                                                                         *)
(* JavaScript numbers are IEEE doubles.  Two encodings are used:           *)
(*  - Num: an exact rational, or NaN, or a signed infinity, with the IEEE  *)
(*    rules for division by zero and for NaN propagation (projection,      *)
(*    pose, coordinate conversion);                                        *)
(*  - fixed point: integers counting 1/Scale (the optimizer), rounding     *)
(*    every product and quotient to the grid as a double rounds to its     *)
(*    own grid.                                                            *)
(***************************************************************************)
EXTENDS Integers, Sequences, FiniteSets, TLC

VARIABLES Config, kp, pix, proj, opt, sp, gc, img, dw, cu

vars == <<Config, kp, pix, proj, opt, sp, gc, img, dw, cu>>

\* The state of the image pipeline outside the numeric core.
rest == <<gc, img, dw, cu>>

----------------------------------------------------------------------------
(* Numbers *)

Abs(i) == IF i < 0 THEN -i ELSE i

Sign(i) == IF i < 0 THEN -1 ELSE IF i > 0 THEN 1 ELSE 0

RECURSIVE GCD(_, _)
GCD(a, b) == IF b = 0 THEN a ELSE GCD(b, a % b)

\* The rational n/d in lowest terms with a positive denominator.
Rat(n, d) ==
  LET g == GCD(Abs(n), Abs(d))
      s == IF d < 0 THEN -1 ELSE 1
  IN [k |-> "fin", n |-> (s * n) \div g, d |-> (s * d) \div g]

Int2Num(i) == [k |-> "fin", n |-> i, d |-> 1]

NaN == [k |-> "nan", n |-> 0, d |-> 1]

Infinity(s) == [k |-> "inf", n |-> s, d |-> 1]

IsFinite(a) == a.k = "fin"

IsNaN(a) == a.k = "nan"

NNeg(a) == [a EXCEPT !.n = -a.n]

\* a + b
NAdd(a, b) ==
  IF IsNaN(a) \/ IsNaN(b) THEN NaN
  ELSE IF a.k = "inf" /\ b.k = "inf" THEN (IF a.n = b.n THEN a ELSE NaN)
  ELSE IF a.k = "inf" THEN a
  ELSE IF b.k = "inf" THEN b
  ELSE Rat(a.n * b.d + b.n * a.d, a.d * b.d)

NSub(a, b) == NAdd(a, NNeg(b))

\* a * b
NMul(a, b) ==
  IF IsNaN(a) \/ IsNaN(b) THEN NaN
  ELSE IF a.k = "inf" \/ b.k = "inf"
       THEN (IF a.n = 0 \/ b.n = 0 THEN NaN ELSE Infinity(Sign(a.n) * Sign(b.n)))
  ELSE Rat(a.n * b.n, a.d * b.d)

\* a / b: x/0 is an infinity, 0/0 and inf/inf are NaN.
NDiv(a, b) ==
  IF IsNaN(a) \/ IsNaN(b) THEN NaN
  ELSE IF a.k = "inf" THEN (IF b.k = "inf" THEN NaN
                            ELSE Infinity(a.n * (IF b.n < 0 THEN -1 ELSE 1)))
  ELSE IF b.k = "inf" THEN Int2Num(0)
  ELSE IF b.n = 0 THEN (IF a.n = 0 THEN NaN ELSE Infinity(Sign(a.n)))
  ELSE Rat(a.n * b.d, a.d * b.n)

\* a < b, false when either is NaN.
NLt(a, b) ==
  IF IsNaN(a) \/ IsNaN(b) THEN FALSE
  ELSE IF a.k = "inf" THEN (a.n < 0 /\ ~(b.k = "inf" /\ b.n < 0))
  ELSE IF b.k = "inf" THEN b.n > 0
  ELSE a.n * b.d < b.n * a.d

\* Math.max and Math.min: NaN if either argument is NaN.
NMax(a, b) == IF IsNaN(a) \/ IsNaN(b) THEN NaN ELSE IF NLt(a, b) THEN b ELSE a

NMin(a, b) == IF IsNaN(a) \/ IsNaN(b) THEN NaN ELSE IF NLt(b, a) THEN b ELSE a

NAbs(a) == [a EXCEPT !.n = Abs(a.n)]

\* Floor of the square root of a natural number.
RECURSIVE ISqrtFrom(_, _)
ISqrtFrom(n, r) == IF (r + 1) * (r + 1) > n THEN r ELSE ISqrtFrom(n, r + 1)

ISqrt(n) == ISqrtFrom(n, 0)

\* Math.sqrt, exact: defined on the squares of rationals only, so that an
\* evaluation outside them stops the check instead of returning a wrong value.
NSqrt(a) ==
  IF IsNaN(a) THEN NaN
  ELSE IF a.k = "inf" THEN (IF a.n > 0 THEN a ELSE NaN)
  ELSE IF a.n < 0 THEN NaN
  ELSE CASE ISqrt(a.n) * ISqrt(a.n) = a.n /\ ISqrt(a.d) * ISqrt(a.d) = a.d
              -> Rat(ISqrt(a.n), ISqrt(a.d))

\* Math.trunc of a finite number.
Trunc(a) == Sign(a.n) * (Abs(a.n) \div a.d)

\* A double is the real result rounded to the nearest point of its grid.  The
\* coordinate conversions and the sums of squares are computed on a grid far
\* coarser than a double's, 1/Grid, so that every rounding error of the code
\* shows, enlarged, in the model.
Grid == 2 ^ 6

Fl(a) ==
  IF ~IsFinite(a) THEN a
  ELSE Rat((2 * a.n * Grid + a.d) \div (2 * a.d), Grid)

FAdd(a, b) == Fl(NAdd(a, b))

FSub(a, b) == Fl(NSub(a, b))

FMul(a, b) == Fl(NMul(a, b))

FDiv(a, b) == Fl(NDiv(a, b))

----------------------------------------------------------------------------
(* Sequences *)

RECURSIVE SumSeq(_)
SumSeq(s) == IF s = <<>> THEN 0 ELSE Head(s) + SumSeq(Tail(s))

\* A faulty flattening, last list first: the layout property must reject it.
RECURSIVE FlattenLastFirst(_)
FlattenLastFirst(ss) ==
  IF ss = <<>> THEN <<>> ELSE FlattenLastFirst(Tail(ss)) \o Head(ss)

\* xcoords.forEach((xc) => xc.forEach((x) => params.push(x)))
RECURSIVE Flatten(_)
Flatten(ss) == IF ss = <<>> THEN <<>> ELSE Head(ss) \o Flatten(Tail(ss))

\* All sequences over S of length 0..n.
SeqsUpTo(S, n) == UNION {[1..m -> S] : m \in 0..n}

\* JavaScript arrays are 0-based: element i of array a.
At(a, i) == a[i + 1]

\* Array.prototype.slice(from, to)
Slice(a, from, to) == SubSeq(a, from + 1, to)

----------------------------------------------------------------------------
(* Config (src/config.js) *)

FocalN == 6

FocalD == 5

DefaultConfig ==
  [FOCAL_LENGTH |-> Rat(FocalN, FocalD),
   EDGE_MAX_OVERLAP |-> Int2Num(1),
   EDGE_MAX_LENGTH |-> Int2Num(100),
   EDGE_ANGLE_COST |-> Int2Num(10),
   EDGE_MAX_ANGLE |-> Rat(15, 2),
   TEXT_MIN_WIDTH |-> Int2Num(15),
   TEXT_MIN_HEIGHT |-> Int2Num(2),
   TEXT_MIN_ASPECT |-> Rat(3, 2),
   TEXT_MAX_THICKNESS |-> Int2Num(10),
   DEBUG_LEVEL |-> 0,
   OUTPUT_ZOOM |-> Int2Num(1),
   REMAP_DECIMATE |-> Int2Num(16),
   OPTIM_MAX_ITER |-> 60,
   SPAN_MIN_WIDTH |-> Int2Num(30),
   RVEC_IDX |-> <<0, 3>>,
   TVEC_IDX |-> <<3, 6>>,
   CUBIC_IDX |-> <<6, 8>>]

\* A faulty update that puts every key it is not given back to its default.
updateConfigFromDefaults(cfg, newConfig) ==
  [key \in DOMAIN cfg \cup DOMAIN newConfig |->
     IF key \in DOMAIN newConfig THEN newConfig[key] ELSE DefaultConfig[key]]

\* Object.assign(Config, newConfig): the keys of newConfig overwrite or are
\* added.
updateConfig(cfg, newConfig) ==
  [key \in DOMAIN cfg \cup DOMAIN newConfig |->
     IF key \in DOMAIN newConfig THEN newConfig[key] ELSE cfg[key]]

----------------------------------------------------------------------------
(* Pose from four corners (src/solvepnp) *)

Zero == Int2Num(0)

One == Int2Num(1)

Vec3(a, b, c) == <<a, b, c>>

Identity3 == <<Vec3(One, Zero, Zero), Vec3(Zero, One, Zero), Vec3(Zero, Zero, One)>>

Zero3 == <<Vec3(Zero, Zero, Zero), Vec3(Zero, Zero, Zero), Vec3(Zero, Zero, Zero)>>

NaN3 == <<Vec3(NaN, NaN, NaN), Vec3(NaN, NaN, NaN), Vec3(NaN, NaN, NaN)>>

\* let sum = 0; for k: sum += f(k)
Sum3(f(_)) == NAdd(NAdd(NAdd(Zero, f(1)), f(2)), f(3))

MatMul(A, B) ==
  [i \in 1..3 |-> [j \in 1..3 |-> LET term(k) == NMul(A[i][k], B[k][j])
                                  IN Sum3(term)]]

Transpose(A) == [i \in 1..3 |-> [j \in 1..3 |-> A[j][i]]]

AllFinite(v) == \A i \in DOMAIN v : IsFinite(v[i])

\* cv.findHomography(src, dst), an OpenCV call.  For a non-degenerate
\* axis-aligned page rectangle whose image is its translate by (x0, y0) the
\* homography is that translation.  For degenerate correspondences OpenCV
\* finds no homography and hands back an empty matrix, whose entries read by
\* doubleAt are whatever the heap holds: any of DegenerateH.
Translation(x0, y0) ==
  <<Vec3(One, Zero, x0), Vec3(Zero, One, y0), Vec3(Zero, Zero, One)>>

DegenerateH == {Zero3, NaN3}

Cross2(o, p, q) ==
  NSub(NMul(NSub(p[1], o[1]), NSub(q[2], o[2])),
       NMul(NSub(p[2], o[2]), NSub(q[1], o[1])))

Collinear(pts) ==
  \A i, j, l \in DOMAIN pts : Cross2(pts[i], pts[j], pts[l]) = Zero

IsTranslate(src, dst) ==
  \A i \in DOMAIN src :
     /\ NSub(dst[i][1], src[i][1]) = NSub(dst[1][1], src[1][1])
     /\ NSub(dst[i][2], src[i][2]) = NSub(dst[1][2], src[1][2])

findHomography(src, dst) ==
  CASE Collinear(src) \/ Collinear(dst) -> DegenerateH
    [] IsTranslate(src, dst) ->
         {Translation(NSub(dst[1][1], src[1][1]), NSub(dst[1][2], src[1][2]))}

\* The eigenvector matrix V and eigenvalues d that the Jacobi sweeps of svd3x3
\* leave.  Modelled where no rotation is ever applied: every off-diagonal entry
\* of B is 0 (the loop breaks at sm === 0, or the entry fails > tresh) or NaN
\* (every comparison with it is false).  Other matrices stop the check.
JacobiNoRotation(B) ==
  \A p, q \in 1..3 : p < q => (B[p][q] = Zero \/ IsNaN(B[p][q]))

svd3x3(A) ==
  LET B == MatMul(Transpose(A), A)
      V == CASE JacobiNoRotation(B) -> Identity3
      d == CASE JacobiNoRotation(B) -> Vec3(B[1][1], B[2][2], B[3][3])
      w == [c \in 1..3 |-> NSqrt(NMax(Zero, d[c]))]
      AV == MatMul(A, V)
      U == [r \in 1..3 |-> [c \in 1..3 |->
              IF NLt(Rat(1, 1000000), w[c]) THEN NDiv(AV[r][c], w[c]) ELSE Zero]]
  IN [w |-> w, u |-> U, vt |-> Transpose(V)]

\* cv.Rodrigues(R, rvec), an OpenCV call, matrix to vector: the identity is
\* the zero rotation; a matrix with a NaN gives NaNs; for a finite matrix that
\* is no rotation OpenCV answers with the rotation nearest to it, of which
\* the model keeps the zero rotation.
RodriguesVec(R) ==
  IF \E i, j \in 1..3 : ~IsFinite(R[i][j]) THEN Vec3(NaN, NaN, NaN)
  ELSE Vec3(Zero, Zero, Zero)

\* solvePlanar after the homography H is known.
decomposeHomography(H, K) ==
  LET fx == K[1]
      cx == K[3]
      fy == K[5]
      cy == K[6]
      col(j) == Vec3(NDiv(NSub(H[1][j], NMul(cx, H[3][j])), fx),
                     NDiv(NSub(H[2][j], NMul(cy, H[3][j])), fy),
                     H[3][j])
      norm(v) == NSqrt(NAdd(NAdd(NMul(v[1], v[1]), NMul(v[2], v[2])),
                            NMul(v[3], v[3])))
      n1 == norm(col(1))
      n2 == norm(col(2))
      r1 == [i \in 1..3 |-> NDiv(col(1)[i], n1)]
      r2 == [i \in 1..3 |-> NDiv(col(2)[i], n2)]
      scale == NDiv(NAdd(n1, n2), Int2Num(2))
      t == [i \in 1..3 |-> NDiv(col(3)[i], scale)]
      r3 == Vec3(NSub(NMul(r1[2], r2[3]), NMul(r1[3], r2[2])),
                 NSub(NMul(r1[3], r2[1]), NMul(r1[1], r2[3])),
                 NSub(NMul(r1[1], r2[2]), NMul(r1[2], r2[1])))
      A_js == [i \in 1..3 |-> Vec3(r1[i], r2[i], r3[i])]
      s == svd3x3(A_js)
      R_ortho == MatMul(s.u, s.vt)
  IN [rvec |-> RodriguesVec(R_ortho), tvec |-> t]

Pose(rvec, tvec) ==
  [err |-> "none", rvec |-> rvec, tvec |-> tvec, success |-> FALSE]

\* A thrown exception; no value is returned.
Throw(what) ==
  [err |-> what, rvec |-> Vec3(NaN, NaN, NaN), tvec |-> Vec3(NaN, NaN, NaN),
   success |-> FALSE]

\* The poses solvePlanar can return: one for each matrix findHomography can.
solvePlanar(objectPoints, imagePoints, K) ==
  LET src == [i \in DOMAIN objectPoints |-> <<objectPoints[i][1], objectPoints[i][2]>>]
  IN {LET p == decomposeHomography(H, K) IN Pose(p.rvec, p.tvec) :
        H \in findHomography(src, imagePoints)}

solveGenericDLT(objectPoints, imagePoints, K) ==
  {Throw("Non-planar DLT not implemented")}

solveDLT(objectPoints, imagePoints, cameraMatrix) ==
  LET isPlanar == \A i, j \in DOMAIN objectPoints :
                     NLt(NAbs(NSub(objectPoints[i][3], objectPoints[j][3])),
                         Rat(1, 1000000))
  IN IF isPlanar THEN solvePlanar(objectPoints, imagePoints, cameraMatrix)
     ELSE solveGenericDLT(objectPoints, imagePoints, cameraMatrix)

\* The rotation matrix modelFactory precomputes: the identity unless
\* theta > 1e-8, which is false for a zero and for a NaN rotation vector.
\* Rotations by other angles need sin and cos and stop the check.
modelRotation(r) ==
  LET sq == NAdd(NAdd(NMul(r[1], r[1]), NMul(r[2], r[2])), NMul(r[3], r[3]))
  IN CASE IsNaN(sq) \/ sq = Zero -> Identity3

\* modelFactory(params)(x) for x = 0 .. 2N-1, as the sequence of predictions.
modelFactory(params, objectPoints, cameraMatrix) ==
  LET R == modelRotation(SubSeq(params, 1, 3))
      t == SubSeq(params, 4, 6)
      fx == cameraMatrix[1]
      cx == cameraMatrix[3]
      fy == cameraMatrix[5]
      cy == cameraMatrix[6]
      cam(p, i) == NAdd(NAdd(NAdd(NMul(R[i][1], p[1]), NMul(R[i][2], p[2])),
                             NMul(R[i][3], p[3])), t[i])
      at(x) == LET p == objectPoints[(x \div 2) + 1]
                   isV == x % 2 # 0
               IN IF ~isV THEN NAdd(NMul(fx, NDiv(cam(p, 1), cam(p, 3))), cx)
                  ELSE NAdd(NMul(fy, NDiv(cam(p, 2), cam(p, 3))), cy)
  IN [j \in 1..(2 * Len(objectPoints)) |-> at(j - 1)]

RECURSIVE NSumSeq(_)
NSumSeq(s) == IF s = <<>> THEN Zero ELSE NAdd(Head(s), NSumSeq(Tail(s)))

\* refinePose: levenbergMarquardt is a library call.  It stops before its first
\* iteration when the squared error of the initial values is within
\* errorTolerance and then returns them.  When that error is not finite the
\* library either gives the initial values back or fails with its own error.
\* A finite error above the tolerance starts the iteration and stops the check.
refinePose(rvec, tvec, objectPoints, imagePoints, cameraMatrix) ==
  LET initialParams == rvec \o tvec
      yData == [j \in 1..(2 * Len(imagePoints)) |->
                  imagePoints[((j - 1) \div 2) + 1][((j - 1) % 2) + 1]]
      pred == modelFactory(initialParams, objectPoints, cameraMatrix)
      error == NSumSeq([j \in DOMAIN yData |->
                 NMul(NSub(yData[j], pred[j]), NSub(yData[j], pred[j]))])
      fitted == Pose(SubSeq(initialParams, 1, 3), SubSeq(initialParams, 4, 6))
  IN CASE ~IsFinite(error) -> {fitted, Throw("levenbergMarquardt")}
       [] IsFinite(error) /\ ~NLt(Rat(1, 100000), error) -> {fitted}

solvePnP(objectPoints, imagePoints, cameraMatrix) ==
  IF Len(objectPoints) # Len(imagePoints)
  THEN {Throw("solvePnP: objectPoints and imagePoints must have same length")}
  ELSE UNION {IF initPose.err # "none" THEN {initPose}
              ELSE {IF refined.err # "none" THEN refined
                    ELSE [refined EXCEPT !.success = TRUE] :
                    refined \in refinePose(initPose.rvec, initPose.tvec,
                                           objectPoints, imagePoints, cameraMatrix)} :
              initPose \in solveDLT(objectPoints, imagePoints, cameraMatrix)}

----------------------------------------------------------------------------
(* The parameter vector (optimise.js getDefaultParams) and src/keypoints.js *)

dist(p1, p2) ==
  NSqrt(NAdd(NMul(NSub(p1[1], p2[1]), NSub(p1[1], p2[1])),
             NMul(NSub(p1[2], p2[2]), NSub(p1[2], p2[2]))))

\* The outcomes of getDefaultParams: for each outcome of solvePnP either its
\* exception, or {pageDims, spanCounts, params}.  The record also keeps the
\* value solvePnP returned, for the properties to refer to.
getDefaultParams(corners, ycoords, xcoords, cfg) ==
  LET pageWidth == dist(corners[1], corners[2])
      pageHeight == dist(corners[1], corners[4])
      objectPoints == <<Vec3(Zero, Zero, Zero), Vec3(pageWidth, Zero, Zero),
                        Vec3(pageWidth, pageHeight, Zero),
                        Vec3(Zero, pageHeight, Zero)>>
      f == cfg.FOCAL_LENGTH
      cameraMatrix == <<f, Zero, Zero, Zero, f, Zero, Zero, Zero, One>>
  IN {LET refinedParams == solution.rvec \o solution.tvec
          spanCounts == [i \in DOMAIN xcoords |-> Len(xcoords[i])]
          params == <<refinedParams[1], refinedParams[2], refinedParams[3]>>
                    \o <<refinedParams[4], refinedParams[5], refinedParams[6]>>
                    \o <<Zero, Zero>>
                    \o ycoords
                    \o Flatten(xcoords)
      IN [err |-> solution.err,
          solution |-> solution,
          pageDims |-> <<pageWidth, pageHeight>>,
          spanCounts |-> IF solution.err = "none" THEN spanCounts ELSE <<>>,
          params |-> IF solution.err = "none" THEN params ELSE <<>>] :
      solution \in solvePnP(objectPoints, corners, cameraMatrix)}

\* The second loop of makeKeypointIndex: spans i, i+1, ... write 8 + i into
\* component [1] of the entries start .. end-1.
RECURSIVE markSpans(_, _, _, _)
markSpans(keypointIndex, spanCounts, i, start) ==
  IF i >= Len(spanCounts) THEN keypointIndex
  ELSE LET count == At(spanCounts, i)
           end == start + count
       IN markSpans([k1 \in DOMAIN keypointIndex |->
                       IF start <= k1 - 1 /\ k1 - 1 < end
                       THEN <<keypointIndex[k1][1], 8 + i>>
                       ELSE keypointIndex[k1]],
                    spanCounts, i + 1, end)

\* A faulty index that forgets the nSpans y-entries in front of the x-entries.
makeKeypointIndexNoSpans(spanCounts) ==
  LET nPts == SumSeq(spanCounts)
      blank == [k1 \in 1..(nPts + 1) |-> <<0, 0>>]
      marked == markSpans(blank, spanCounts, 0, 1)
  IN [k1 \in DOMAIN marked |->
        IF k1 - 1 >= 1 THEN <<(k1 - 1) - 1 + 8, marked[k1][2]>> ELSE marked[k1]]

makeKeypointIndex(spanCounts) ==
  LET nSpans == Len(spanCounts)
      nPts == SumSeq(spanCounts)
      blank == [k1 \in 1..(nPts + 1) |-> <<0, 0>>]
      marked == markSpans(blank, spanCounts, 0, 1)
  IN [k1 \in DOMAIN marked |->
        IF k1 - 1 >= 1 THEN <<(k1 - 1) - 1 + 8 + nSpans, marked[k1][2]>>
        ELSE marked[k1]]

\* A faulty projector that loses the first point.
projectXYDropFirst(xyCoords, pvec, cfg) ==
  [i \in 1..(Len(xyCoords) - 1) |-> <<Zero, Zero>>]

\* A faulty rotation, the zero matrix.
RodriguesNone(rvec) == Zero3

\* cv.Rodrigues(rvec, R), an OpenCV call, vector to matrix: the zero vector is
\* the identity, a vector with a non-finite component gives NaNs.  Rotations
\* by other angles need sin and cos and stop the check.
Rodrigues(rvec) ==
  CASE \A i \in 1..3 : rvec[i] = Zero -> Identity3
    [] \E i \in 1..3 : ~IsFinite(rvec[i]) -> NaN3

\* A faulty clamp that lets every coefficient through.
ClampNone(lo, hi, a) == a

Clamp(lo, hi, a) == NMax(lo, NMin(hi, a))

\* The height of the page surface at x for the clamped coefficients a and b:
\* z = p0*x^3 + p1*x^2 + p2*x with p0 = a + b, p1 = -2a - b, p2 = a.
surfaceZ(a, b, x) ==
  LET p0 == NAdd(a, b)
      p1 == NSub(NMul(Int2Num(-2), a), b)
      p2 == a
      x2 == NMul(x, x)
      x3 == NMul(x2, x)
  IN NAdd(NAdd(NMul(p0, x3), NMul(p1, x2)), NMul(p2, x))

projectXY(xyCoords, pvec, cfg) ==
  LET rvecIdx == cfg.RVEC_IDX
      tvecIdx == cfg.TVEC_IDX
      cubicIdx == cfg.CUBIC_IDX
      a == Clamp(Rat(-1, 2), Rat(1, 2), At(pvec, cubicIdx[1]))
      b == Clamp(Rat(-1, 2), Rat(1, 2), At(pvec, cubicIdx[1] + 1))
      objPoint(pt) == Vec3(pt[1], pt[2], surfaceZ(a, b, pt[1]))
      R == Rodrigues(Slice(pvec, rvecIdx[1], rvecIdx[2]))
      t == Slice(pvec, tvecIdx[1], tvecIdx[2])
      K_f == cfg.FOCAL_LENGTH
      Pc(p, i) == NAdd(NAdd(NAdd(NMul(R[i][1], p[1]), NMul(R[i][2], p[2])),
                            NMul(R[i][3], p[3])), t[i])
      project(p) == <<NMul(K_f, NDiv(Pc(p, 1), Pc(p, 3))),
                      NMul(K_f, NDiv(Pc(p, 2), Pc(p, 3)))>>
  IN [i \in DOMAIN xyCoords |-> project(objPoint(xyCoords[i]))]

\* Faulty model points, x and y read through each other's index.
keypointCoordsSwapped(pvec, keypointIndex) ==
  <<(<<Zero, Zero>>)>> \o
  [i \in 1..(Len(keypointIndex) - 1) |->
     <<At(pvec, At(keypointIndex, i)[2]), At(pvec, At(keypointIndex, i)[1])>>]

\* The model points projectKeypoints builds and hands to projectXY.
keypointCoords(pvec, keypointIndex) ==
  <<(<<Zero, Zero>>)>> \o
  [i \in 1..(Len(keypointIndex) - 1) |->
     <<At(pvec, At(keypointIndex, i)[1]), At(pvec, At(keypointIndex, i)[2])>>]

projectKeypoints(pvec, keypointIndex, cfg) ==
  projectXY(keypointCoords(pvec, keypointIndex), pvec, cfg)

\* optimiseParams.objective(p): the sum of squared distances between the
\* detected and the projected keypoints.
RECURSIVE sumSqFrom(_, _, _, _)
sumSqFrom(sumSq, dstpoints, ppts, i) ==
  IF i >= Len(dstpoints) THEN sumSq
  ELSE LET dx == FSub(At(dstpoints, i)[1], At(ppts, i)[1])
           dy == FSub(At(dstpoints, i)[2], At(ppts, i)[2])
       IN sumSqFrom(FAdd(sumSq, FAdd(FMul(dx, dx), FMul(dy, dy))),
                    dstpoints, ppts, i + 1)

objective(p, keypointIndex, dstpoints, cfg) ==
  sumSqFrom(Zero, dstpoints, projectKeypoints(p, keypointIndex, cfg), 0)

----------------------------------------------------------------------------
(* State machine: initial parameters, keypoint index, objective evaluation *)

MaxSpans == 2

MaxPts == 2

\* The inputs hold pairwise distinct values, so that a vector with two of them
\* exchanged differs: point j of span i lies at x = (4i + j)/16 - 1/2, span i
\* at y = i/4 - 1/4 (i and j from 1).
XCoord(i, j) == Rat(4 * i + j - 8, 16)

YCoord(i) == Rat(i - 1, 4)

Point2(x, y) == <<Int2Num(x), Int2Num(y)>>

\* Corners in the order top-left, top-right, bottom-right, bottom-left.
Rectangle(x0, y0, w, h) ==
  <<Point2(x0, y0), Point2(x0 + w, y0), Point2(x0 + w, y0 + h), Point2(x0, y0 + h)>>

CornerInputs ==
  {Rectangle(0, 0, 2, 1), Rectangle(1, 1, 1, 2),
   Rectangle(0, 0, 0, 1), Rectangle(0, 0, 2, 0),
   <<Point2(0, 0), Point2(1, 0), Point2(2, 0), Point2(3, 0)>>}

KpIdle ==
  [pc |-> "idle", corners |-> <<>>, ycoords |-> <<>>, xcoords |-> <<>>,
   ret |-> <<>>, keypointIndex |-> <<>>, pvec |-> <<>>, xyCoords |-> <<>>,
   projected |-> <<>>, pvecAfter |-> <<>>, keypointIndexAfter |-> <<>>,
   dstpoints |-> <<>>, loss |-> Zero]

PixIdle ==
  [pc |-> "idle", shape |-> [rows |-> 0, cols |-> 0], p |-> <<0, 0>>,
   asInteger |-> TRUE, norm |-> <<>>, back |-> <<>>]

ProjIdle == [pc |-> "idle", calls |-> <<>>]

OptIdle ==
  [pc |-> "idle", objective |-> "flat", initialParams |-> <<>>, maxIter |-> 0,
   tol |-> 0, x |-> <<>>, fx |-> 0, directions |-> <<>>, iter |-> 0,
   sweeps |-> 0, i |-> 0, xOld |-> <<>>, fxOld |-> 0, biggestDecrease |-> 0,
   biggestIdx |-> -1, converged |-> FALSE, ret |-> <<>>, xObj |-> "none",
   fxSweep |-> 0, replaced |-> FALSE, searched |-> FALSE]

SpIdle ==
  [pc |-> "idle", contours |-> <<>>, cinfoList |-> <<>>,
   candidateEdges |-> <<>>, listCopy |-> <<>>, cinfo |-> 0, curSpan |-> <<>>,
   width |-> Zero, spans |-> <<>>, discovered |-> <<>>, k |-> 0,
   chains |-> <<>>, spanWidths |-> <<>>, spanSizes |-> <<>>, first |-> <<>>]

NoStats ==
  [totalContours |-> 0, acceptedContours |-> 0,
   rejectionBreakdown |->
     [width |-> 0, height |-> 0, aspect |-> 0, thickness |-> 0, zeroMoments |-> 0],
   sampleRejectedRects |-> <<>>]

GcIdle ==
  [pc |-> "idle", contoursVec |-> <<>>, i |-> 0, contoursOut |-> <<>>,
   stats |-> NoStats, lastContourStats |-> NoStats, ret |-> <<>>]

ImgIdle ==
  [pc |-> "idle", file |-> 0, input |-> <<>>, metrics |-> {}, cv2_img |-> -1,
   small |-> -1, pagemask |-> -1, cinfos |-> <<>>, contour_list |-> <<>>,
   spans |-> 0, spanStats |-> FALSE, written |-> FALSE, destroys |-> 0,
   lastDeleted |-> 0, detected |-> <<>>, assembled |-> <<>>,
   result |-> [of |-> "none", spans |-> 0]]

DwIdle ==
  [pc |-> "idle", widthSmall |-> 0, heightSmall |-> 0, pageDims |-> <<>>,
   params |-> <<>>, img |-> [rows |-> 0, cols |-> 0], imagePoints |-> <<>>,
   i |-> 0, invalidPointCount |-> 0, mapXSmall |-> <<>>, mapYSmall |-> <<>>]

CuIdle == [pc |-> "idle", before |-> <<>>, newConfig |-> <<>>, calls |-> 0]

RestIdle == gc = GcIdle /\ img = ImgIdle /\ dw = DwIdle /\ cu = CuIdle

InitParams ==
  /\ Config = DefaultConfig
  /\ RestIdle
  /\ \E S \in 0..MaxSpans :
       \E counts \in [1..S -> 0..MaxPts], corners \in CornerInputs :
         kp = [KpIdle EXCEPT
                 !.pc = "start", !.corners = corners,
                 !.ycoords = [i \in 1..S |-> YCoord(i)],
                 !.xcoords = [i \in 1..S |-> [j \in 1..counts[i] |-> XCoord(i, j)]]]
  /\ pix = PixIdle
  /\ proj = ProjIdle
  /\ opt = OptIdle
  /\ sp = SpIdle

\* main: getDefaultParams(corners, ycoords, xcoords)
GetDefaultParams ==
  /\ kp.pc = "start"
  /\ \E ret \in getDefaultParams(kp.corners, kp.ycoords, kp.xcoords, Config) :
       kp' = [kp EXCEPT !.pc = IF ret.err = "none" THEN "params" ELSE "failed",
                        !.ret = <<ret>>]
  /\ UNCHANGED <<Config, pix, proj, opt, sp, rest>>

\* optimiseParams: makeKeypointIndex(spanCounts)
MakeKeypointIndex ==
  /\ kp.pc = "params"
  /\ kp' = [kp EXCEPT !.pc = "index",
                      !.keypointIndex = makeKeypointIndex(kp.ret[1].spanCounts)]
  /\ UNCHANGED <<Config, pix, proj, opt, sp, rest>>

\* The vectors the optimizer evaluates: the initial one, and it with one of
\* the entries from tvec[2] on replaced.
PerturbVals == {Zero, Rat(1, 2)}

TrialVectors(params) ==
  {params} \cup {[params EXCEPT ![i] = v] :
                   i \in {j \in {6, 7, 9} : j <= Len(params)}, v \in PerturbVals}

\* The keypoints detected in the image, one for every entry of the index.
DstPoint(i) == <<Rat(i, 8), Rat(1 - i, 8)>>

\* One evaluation objective(pvec) by optimiseParams or by minimize.  Its call
\* of projectKeypoints builds new arrays and writes to neither argument.
EvaluateObjective ==
  /\ kp.pc = "index"
  /\ \E pvec \in TrialVectors(kp.ret[1].params) :
       LET dstpoints == [i \in DOMAIN kp.keypointIndex |-> DstPoint(i)]
       IN kp' = [kp EXCEPT !.pc = "projected",
                           !.pvec = pvec,
                           !.dstpoints = dstpoints,
                           !.xyCoords = keypointCoords(pvec, kp.keypointIndex),
                           !.projected = projectKeypoints(pvec, kp.keypointIndex, Config),
                           !.pvecAfter = pvec,
                           !.keypointIndexAfter = kp.keypointIndex,
                           !.loss = objective(pvec, kp.keypointIndex, dstpoints, Config)]
  /\ UNCHANGED <<Config, pix, proj, opt, sp, rest>>

NextParams == GetDefaultParams \/ MakeKeypointIndex \/ EvaluateObjective

SpecParams == InitParams /\ [][NextParams]_vars

----------------------------------------------------------------------------
(* Properties of the parameter vector and the keypoint index *)

ParamsBuilt == kp.pc \in {"params", "index", "projected"}

\* Number of x-coordinates in the spans before span i (i from 1).
PointsBefore(xcoords, i) == SumSeq([l \in 1..(i - 1) |-> Len(xcoords[l])])

\* C2: the vector getDefaultParams returns has length 8 + S + N and holds the
\* rotation vector at 0..2, the translation vector at 3..5, the cubic
\* coefficients (0, 0) at 6..7, the S span y-coordinates at 8..8+S-1 in span
\* order and then the N x-coordinates flattened in span order; spanCounts[i]
\* is the length of xcoords[i].
C2_ParamLayout ==
  ParamsBuilt =>
    LET r == kp.ret[1]
        S == Len(kp.ycoords)
        N == PointsBefore(kp.xcoords, S + 1)
    IN /\ Len(kp.xcoords) = S
       /\ Len(r.params) = 8 + S + N
       /\ \A c \in 0..2 : /\ At(r.params, c) = r.solution.rvec[c + 1]
                          /\ At(r.params, 3 + c) = r.solution.tvec[c + 1]
       /\ At(r.params, 6) = Zero
       /\ At(r.params, 7) = Zero
       /\ \A i \in 1..S : At(r.params, 8 + i - 1) = kp.ycoords[i]
       /\ \A i \in 1..S : \A j \in 1..Len(kp.xcoords[i]) :
            At(r.params, 8 + S + PointsBefore(kp.xcoords, i) + j - 1) = kp.xcoords[i][j]
       /\ Len(r.spanCounts) = S
       /\ \A i \in 1..S : r.spanCounts[i] = Len(kp.xcoords[i])

\* Two spans of different sizes, both non-empty, went into the vector.
C2_Witness ==
  /\ kp.pc = "params"
  /\ Len(kp.xcoords) = 2
  /\ Len(kp.xcoords[1]) = 2
  /\ Len(kp.xcoords[2]) = 1

\* The span (from 0) that holds the k-th point (from 1) in flattened order.
SpanOfPoint(spanCounts, k) ==
  CHOOSE i \in 0..(Len(spanCounts) - 1) :
    /\ SumSeq(SubSeq(spanCounts, 1, i)) < k
    /\ k <= SumSeq(SubSeq(spanCounts, 1, i + 1))

\* C3: makeKeypointIndex(spanCounts) has N + 1 entries, entry 0 is [0, 0] and
\* entry k in 1..N is [8 + S + (k-1), 8 + i] with i the span holding the k-th
\* point; so the x-indices are pairwise distinct, the y-indices lie in
\* 8..8+S-1 and every index is a position of a vector of length 8 + S + N.
C3_KeypointIndex ==
  kp.pc \in {"index", "projected"} =>
    LET spanCounts == kp.ret[1].spanCounts
        S == Len(spanCounts)
        N == SumSeq(spanCounts)
        keypointIndex == kp.keypointIndex
    IN /\ Len(keypointIndex) = N + 1
       /\ At(keypointIndex, 0) = <<0, 0>>
       /\ \A k \in 1..N :
            At(keypointIndex, k) = <<8 + S + (k - 1), 8 + SpanOfPoint(spanCounts, k)>>
       /\ \A k, l \in 1..N : k # l => At(keypointIndex, k)[1] # At(keypointIndex, l)[1]
       /\ \A k \in 1..N : At(keypointIndex, k)[2] \in 8..(8 + S - 1)
       /\ \A k \in 0..N : \A c \in 1..2 :
            At(keypointIndex, k)[c] \in 0..(8 + S + N - 1)

\* An index over an empty span followed by a span of two points.
C3_Witness ==
  /\ kp.pc = "index"
  /\ kp.ret[1].spanCounts = <<0, 2>>

\* C4: projectKeypoints hands the projector keypointIndex.length model points
\* and returns one projected point per entry; model point 0 is (0, 0), model
\* point i >= 1 is (pvec[keypointIndex[i][0]], pvec[keypointIndex[i][1]]);
\* pvec and keypointIndex are as they were before the call.
C4_ProjectKeypoints ==
  kp.pc = "projected" =>
    LET n == Len(kp.keypointIndex)
    IN /\ Len(kp.xyCoords) = n
       /\ Len(kp.projected) = n
       /\ kp.projected = projectXY(kp.xyCoords, kp.pvec, Config)
       /\ At(kp.xyCoords, 0) = <<Zero, Zero>>
       /\ \A i \in 1..(n - 1) :
            At(kp.xyCoords, i) = <<At(kp.pvec, At(kp.keypointIndex, i)[1]),
                                   At(kp.pvec, At(kp.keypointIndex, i)[2])>>
       /\ kp.pvecAfter = kp.pvec
       /\ kp.keypointIndexAfter = kp.keypointIndex

\* Three keypoints besides the origin were projected under a vector other
\* than the initial one.
C4_Witness ==
  /\ kp.pc = "projected"
  /\ Len(kp.keypointIndex) = 4
  /\ kp.pvec # kp.ret[1].params

\* C7: when the perspective division yields a non-finite coordinate the value
\* is replaced by 0, so an objective evaluation at a finite parameter vector
\* is finite.
C7_ObjectiveFinite ==
  (kp.pc = "projected" /\ AllFinite(kp.pvec)) => IsFinite(kp.loss)

\* An evaluation at a finite vector with tvec[2] = 0: the camera-space z of
\* the flat page is 0, a projected coordinate is not finite and the objective
\* value is NaN.
C7_NaNObjective ==
  /\ kp.pc = "projected"
  /\ AllFinite(kp.pvec)
  /\ At(kp.pvec, 5) = Zero
  /\ \E i \in DOMAIN kp.projected : ~IsFinite(kp.projected[i][1])
  /\ IsNaN(kp.loss)

\* The four corners are degenerate: all on one line, which includes a page of
\* zero width or zero height.
Degenerate(corners) ==
  \/ Collinear(corners)
  \/ dist(corners[1], corners[2]) = Zero
  \/ dist(corners[1], corners[4]) = Zero

\* C8: for degenerate corners the pose estimation signals an error instead of
\* returning a pose to getDefaultParams.
C8_DegenerateSignalsError ==
  (kp.pc # "start" /\ Degenerate(kp.corners)) => kp.pc = "failed"

\* Degenerate corners went in and solvePnP reported success with a translation
\* of NaNs, which getDefaultParams put into the parameter vector.
C8_NaNPoseReturned ==
  /\ kp.pc = "params"
  /\ Degenerate(kp.corners)
  /\ kp.ret[1].solution.success
  /\ \A c \in 3..5 : IsNaN(At(kp.ret[1].params, c))

----------------------------------------------------------------------------
(* Pixel and normalized coordinates (src/utils.js) *)

\* Math.trunc(a) as a number
NTrunc(a) == IF IsFinite(a) THEN Int2Num(Trunc(a)) ELSE a

Half == Rat(1, 2)

pix2norm(shape, pts) ==
  LET height == Int2Num(shape.rows)
      width == Int2Num(shape.cols)
      scl == FDiv(Int2Num(2), NMax(height, width))
      offsetX == FMul(width, Half)
      offsetY == FMul(height, Half)
  IN [i \in DOMAIN pts |-> <<FMul(FSub(pts[i][1], offsetX), scl),
                             FMul(FSub(pts[i][2], offsetY), scl)>>]

\* A faulty norm2pix that scales by the smaller side.
norm2pixMin(shape, pts, asInteger) ==
  LET height == Int2Num(shape.rows)
      width == Int2Num(shape.cols)
      scl == FMul(NMin(height, width), Half)
      x(q) == FAdd(FMul(q[1], scl), FMul(width, Half))
      y(q) == FAdd(FMul(q[2], scl), FMul(height, Half))
  IN [i \in DOMAIN pts |->
        IF asInteger THEN <<NTrunc(FAdd(x(pts[i]), Half)), NTrunc(FAdd(y(pts[i]), Half))>>
        ELSE <<x(pts[i]), y(pts[i])>>]

norm2pix(shape, pts, asInteger) ==
  LET height == Int2Num(shape.rows)
      width == Int2Num(shape.cols)
      scl == FMul(NMax(height, width), Half)
      offsetX == FMul(width, Half)
      offsetY == FMul(height, Half)
      x(q) == FAdd(FMul(q[1], scl), offsetX)
      y(q) == FAdd(FMul(q[2], scl), offsetY)
  IN [i \in DOMAIN pts |->
        IF asInteger THEN <<NTrunc(FAdd(x(pts[i]), Half)), NTrunc(FAdd(y(pts[i]), Half))>>
        ELSE <<x(pts[i]), y(pts[i])>>]

MaxDim == 4

InitPix ==
  /\ Config = DefaultConfig
  /\ RestIdle
  /\ kp = KpIdle
  /\ \E rows \in 1..MaxDim, cols \in 1..MaxDim :
       \E x \in 0..cols, y \in 0..rows :
         pix = [PixIdle EXCEPT !.pc = "pixel",
                               !.shape = [rows |-> rows, cols |-> cols],
                               !.p = <<Int2Num(x), Int2Num(y)>>]
  /\ proj = ProjIdle
  /\ opt = OptIdle
  /\ sp = SpIdle

Pix2Norm ==
  /\ pix.pc = "pixel"
  /\ pix' = [pix EXCEPT !.pc = "normalized",
                        !.norm = pix2norm(pix.shape, <<pix.p>>)]
  /\ UNCHANGED <<Config, kp, proj, opt, sp, rest>>

Norm2Pix ==
  /\ pix.pc = "normalized"
  /\ \E asInteger \in BOOLEAN :
       pix' = [pix EXCEPT !.pc = "back",
                          !.asInteger = asInteger,
                          !.back = norm2pix(pix.shape, pix.norm, asInteger)]
  /\ UNCHANGED <<Config, kp, proj, opt, sp, rest>>

NextPix == Pix2Norm \/ Norm2Pix

SpecPix == InitPix /\ [][NextPix]_vars

\* C9: for a shape with positive rows and cols and a pixel with integer
\* coordinates 0 <= x <= cols, 0 <= y <= rows,
\* norm2pix(shape, pix2norm(shape, [p])) gives p back.
C9_RoundTrip ==
  (pix.pc = "back" /\ pix.asInteger) => pix.back = <<pix.p>>

\* A corner pixel of a shape that is not square made the round trip, through
\* normalized coordinates that the grid had to round.
C9_Witness ==
  /\ pix.pc = "back"
  /\ pix.asInteger
  /\ pix.shape = [rows |-> 2, cols |-> 3]
  /\ pix.p = <<Int2Num(3), Int2Num(2)>>
  /\ pix.norm # <<(<<One, Rat(2, 3)>>)>>

----------------------------------------------------------------------------
(* State machine: calls of projectXY interleaved with updateConfig *)

MaxCalls == 2

XYInputs ==
  {<<(<<Zero, Zero>>), (<<Rat(1, 2), Rat(1, 2)>>)>>,
   <<(<<Rat(1, 2), Rat(1, 4)>>), (<<Rat(-1, 2), Zero>>)>>}

\* rvec, tvec, cubic: a flat page in front of the camera, a curved page, a
\* page through the camera centre, a page whose cubic coefficients are out of
\* range, one finite and one infinite, and the flat page at distance 1.
PvecInputs ==
  {<<Zero, Zero, Zero, Zero, Zero, Rat(6, 5), Zero, Zero>>,
   <<Zero, Zero, Zero, Rat(1, 4), Zero, One, Rat(1, 2), Rat(-1, 4)>>,
   <<Zero, Zero, Zero, Zero, Zero, Zero, Zero, Zero>>,
   <<Zero, Zero, Zero, Zero, Zero, One, Int2Num(10), Infinity(-1)>>,
   <<Zero, Zero, Zero, Zero, Zero, One, Zero, Zero>>}

\* The updates the command line applies: a focal length, a span width.
ConfigUpdates ==
  {[FOCAL_LENGTH |-> Rat(3, 2)], [FOCAL_LENGTH |-> Rat(6, 5)],
   [SPAN_MIN_WIDTH |-> Int2Num(20)]}

\* The entries of Config that projectXY reads.
ConfigRead(cfg) ==
  [FOCAL_LENGTH |-> cfg.FOCAL_LENGTH, RVEC_IDX |-> cfg.RVEC_IDX,
   TVEC_IDX |-> cfg.TVEC_IDX, CUBIC_IDX |-> cfg.CUBIC_IDX]

InitProj ==
  /\ Config = DefaultConfig
  /\ RestIdle
  /\ kp = KpIdle
  /\ pix = PixIdle
  /\ proj = [ProjIdle EXCEPT !.pc = "running"]
  /\ opt = OptIdle
  /\ sp = SpIdle

\* One call projectXY(xyCoords, pvec): the log keeps the arguments, the Config
\* at the call, the value returned and the arguments as the call left them
\* (it writes to neither).
CallProjectXY ==
  /\ proj.pc = "running"
  /\ Len(proj.calls) < MaxCalls
  /\ \E xyCoords \in XYInputs, pvec \in PvecInputs :
       proj' = [proj EXCEPT !.calls = Append(@,
                  [xyCoords |-> xyCoords, pvec |-> pvec, cfg |-> Config,
                   out |-> projectXY(xyCoords, pvec, Config),
                   xyCoordsAfter |-> xyCoords, pvecAfter |-> pvec])]
  /\ UNCHANGED <<Config, kp, pix, opt, sp, rest>>

UpdateConfig ==
  /\ proj.pc = "running"
  /\ \E newConfig \in ConfigUpdates : Config' = updateConfig(Config, newConfig)
  /\ UNCHANGED <<kp, pix, proj, opt, sp, rest>>

NextProj == CallProjectXY \/ UpdateConfig

SpecProj == InitProj /\ [][NextProj]_vars

InRange(v) == NMin(Rat(1, 2), NMax(Rat(-1, 2), v))

\* pvec with entries 6 and 7 (counted from 0) brought into [-0.5, 0.5].
ClampedPvec(pvec) ==
  [k \in DOMAIN pvec |-> IF k \in {7, 8} THEN InRange(pvec[k]) ELSE pvec[k]]

\* C11: projectXY uses the cubic coefficients clamped to [-0.5, 0.5]: a call
\* returns what the call with pvec[6] and pvec[7] brought into [-0.5, 0.5]
\* returns, and an out-of-range coefficient does not keep the call from
\* returning one point per input point.  Stated of the call that has just
\* returned; the records of earlier calls never change.
C11_ClampedCubic ==
  proj.calls # <<>> =>
    LET call == proj.calls[Len(proj.calls)]
    IN /\ call.out = projectXY(call.xyCoords, ClampedPvec(call.pvec), call.cfg)
       /\ Len(call.out) = Len(call.xyCoords)

\* A call with coefficients 10 and -Infinity on a point off the axis x = 0,
\* where the surface height depends on the coefficients.
C11_Witness ==
  \E i \in DOMAIN proj.calls :
    /\ At(proj.calls[i].pvec, 6) = Int2Num(10)
    /\ At(proj.calls[i].pvec, 7) = Infinity(-1)
    /\ \E l \in DOMAIN proj.calls[i].xyCoords : proj.calls[i].xyCoords[l][1] # Zero
    /\ \A l \in DOMAIN proj.calls[i].out :
         IsFinite(proj.calls[i].out[l][1]) /\ IsFinite(proj.calls[i].out[l][2])

\* The flat page at distance 1: identity rotation, tvec = (0, 0, 1),
\* alpha = beta = 0.
IdentityPose(pvec) ==
  /\ \A k \in 1..5 : pvec[k] = Zero
  /\ pvec[6] = One
  /\ pvec[7] = Zero /\ pvec[8] = Zero

\* C12: with alpha = beta = 0 the surface height is 0 at every x, and with
\* identity rotation and tvec = (0, 0, 1) projectXY maps every point (x, y) to
\* (f*x, f*y), f being Config.FOCAL_LENGTH at the call; (0, 0) goes to (0, 0).
C12_FlatPage ==
  \A i \in DOMAIN proj.calls :
    IdentityPose(proj.calls[i].pvec) =>
      \A l \in DOMAIN proj.calls[i].xyCoords :
        LET pt == proj.calls[i].xyCoords[l]
            f == proj.calls[i].cfg.FOCAL_LENGTH
        IN /\ surfaceZ(Zero, Zero, pt[1]) = Zero
           /\ proj.calls[i].out[l] = <<NMul(f, pt[1]), NMul(f, pt[2])>>
           /\ pt = <<Zero, Zero>> => proj.calls[i].out[l] = <<Zero, Zero>>

\* The call of the flat page at distance 1 on (0, 0) and (0.5, 0.5) under the
\* default focal length: (0.5, 0.5) goes to (0.6, 0.6).
C12_Witness ==
  \E i \in DOMAIN proj.calls :
    /\ IdentityPose(proj.calls[i].pvec)
    /\ proj.calls[i].xyCoords = <<(<<Zero, Zero>>), (<<Rat(1, 2), Rat(1, 2)>>)>>
    /\ proj.calls[i].cfg.FOCAL_LENGTH = Rat(FocalN, FocalD)
    /\ proj.calls[i].out = <<(<<Zero, Zero>>), (<<Rat(3, 5), Rat(3, 5)>>)>>

----------------------------------------------------------------------------
(* Powell's method (optimise.js: bracketMinimum, brentSearch, minimize) *)

\* The optimizer's numbers are integers counting 1/Scale; a product or a
\* quotient is rounded to the nearest such number, as a double operation
\* rounds to the nearest double.
Scale == 10 * 10

RMul(a, b) == (2 * a * b + Scale) \div (2 * Scale)

RDiv(a, b) ==
  LET n == IF b < 0 THEN -a ELSE a
      d == Abs(b)
  IN (2 * n * Scale + d) \div (2 * d)

\* 0.5 * v
HalfOf(v) == RMul(Scale \div 2, v)

\* The constants of the line search on the grid: the first step 0.1, the
\* expansion factor 1.618, CGOLD = 0.381966; ZEPS = 1e-10, the guard that keeps
\* tol1 positive, is one grid step.
BracketStep == Scale \div 10

GoldenGrow == (1618 * Scale) \div 1000

CGOLD == (381966 * Scale + 500000) \div 1000000

ZEPS == 1

ITMAX == 100

BracketMax == 50

\* The objectives minimized in the model, as functions of the point x:
\* deterministic, finite, bounded below.
ObjCenter(i) == IF i % 2 = 1 THEN Scale ELSE -(Scale \div 2)

RECURSIVE SumOver(_, _, _)
SumOver(term(_), i, n) == IF i > n THEN 0 ELSE term(i) + SumOver(term, i + 1, n)

ObjectiveNames == {"bowl", "valley", "abs", "flat", "wells"}

Objective(name, x) ==
  LET n == Len(x)
      sq(v) == RMul(v, v)
      bowl(i) == sq(x[i] - ObjCenter(i))
      valley(i) == IF i < n THEN sq(x[i] - x[i + 1]) + RMul(Scale \div 4, sq(x[i] - Scale))
                   ELSE RMul(Scale \div 4, sq(x[i] - Scale))
      abs(i) == Abs(x[i] - ObjCenter(i))
      wells(i) == RMul(Scale \div 8, sq(sq(x[i]) - Scale))
  IN CASE name = "bowl" -> SumOver(bowl, 1, n)
       [] name = "valley" -> SumOver(valley, 1, n)
       [] name = "abs" -> SumOver(abs, 1, n)
       [] name = "flat" -> Scale
       [] name = "wells" -> SumOver(wells, 1, n)

\* phi(alpha) of lineSearchAlongDirection: objective(x + alpha * direction).
\* ctx holds what the closure captures: the objective, x and the direction.
MoveAlong(x, direction, alpha) ==
  [i \in DOMAIN x |-> x[i] + RMul(alpha, direction[i])]

phi(ctx, alpha) == Objective(ctx.objective, MoveAlong(ctx.x, ctx.direction, alpha))

\* while (fc < fb && iter < 50), downhill being the outcome of fc < fb
bracketContinues(downhill, iter) == downhill /\ iter < BracketMax

\* A faulty loop head that lets the counter reach ITMAX + 1.
brentContinuesPastCap(iter) == iter <= ITMAX

\* for (let iter = 0; iter < ITMAX; iter++)
brentContinues(iter) == iter < ITMAX

\* The while loop of bracketMinimum.
RECURSIVE bracketLoop(_, _, _, _, _, _, _, _)
bracketLoop(ctx, a, b, c, fb, fc, s, iter) ==
  IF bracketContinues(fc < fb, iter)
  THEN LET s1 == RMul(s, GoldenGrow)
           c1 == c + s1
       IN bracketLoop(ctx, b, c, c1, fc, phi(ctx, c1), s1, iter + 1)
  ELSE [a |-> IF a > c THEN c ELSE a, b |-> b, c |-> IF a > c THEN a ELSE c,
        iter |-> iter]

\* bracketMinimum from c = b + s on: fc = f(c), then the loop.
bracketGrow(ctx, a, b, s, fb) ==
  bracketLoop(ctx, a, b, b + s, fb, phi(ctx, b + s), s, 0)

\* bracketMinimum after the step was reversed (s is the reversed step):
\* uphill on both sides, x0 is bracketed where it stands.
bracketBack(ctx, x0, s, fa, fb) ==
  IF fb > fa
  THEN [a |-> x0 - Abs(s), b |-> x0, c |-> x0 + Abs(s), iter |-> 0]
  ELSE bracketGrow(ctx, x0, x0 + s, s, fb)

\* bracketMinimum after fa = f(a) and fb = f(b).
bracketFirst(ctx, x0, s, fa, fb) ==
  IF fb > fa THEN bracketBack(ctx, x0, -s, fa, phi(ctx, x0 - s))
  ELSE bracketGrow(ctx, x0, x0 + s, s, fb)

bracketMinimum(ctx, x0, s) ==
  bracketFirst(ctx, x0, s, phi(ctx, x0), phi(ctx, x0 + s))

\* The parabola through x, v and w of brentSearch: r, q and p as the code
\* leaves them before it tests the step.
brentParabola(st) ==
  LET r == RMul(st.x - st.w, st.fx - st.fv)
      q0 == RMul(st.x - st.v, st.fx - st.fw)
      p0 == RMul(st.x - st.v, q0) - RMul(st.x - st.w, r)
  IN [p |-> IF 2 * (q0 - r) > 0 THEN -p0 ELSE p0, q |-> Abs(2 * (q0 - r))]

\* e = x >= xm ? a - x : c - x
brentGolden(st, xm) == IF st.x >= xm THEN st.a - st.x ELSE st.c - st.x

\* The step of one pass of brentSearch: e and d after the parabolic step was
\* taken, or rejected for the golden section step.
brentMove(st, xm, tol1, pq) ==
  IF /\ Abs(st.e) > tol1
     /\ ~(\/ Abs(pq.p) >= Abs(RMul(HalfOf(pq.q), st.e))
          \/ pq.p <= RMul(pq.q, st.a - st.x)
          \/ pq.p >= RMul(pq.q, st.c - st.x))
  THEN [e |-> st.d,
        d |-> IF \/ st.x + RDiv(pq.p, pq.q) - st.a < 2 * tol1
                 \/ st.c - (st.x + RDiv(pq.p, pq.q)) < 2 * tol1
              THEN (IF xm - st.x >= 0 THEN tol1 ELSE -tol1)
              ELSE RDiv(pq.p, pq.q)]
  ELSE [e |-> brentGolden(st, xm), d |-> RMul(CGOLD, brentGolden(st, xm))]

\* u = Math.abs(d) >= tol1 ? x + d : x + (d >= 0 ? tol1 : -tol1)
brentTrial(x, d, tol1) ==
  IF Abs(d) >= tol1 THEN x + d ELSE x + (IF d >= 0 THEN tol1 ELSE -tol1)

\* The bookkeeping of brentSearch after f(u): fu <= fx.
brentBetter(st, u, fu, mv) ==
  [st EXCEPT !.a = IF u >= st.x THEN st.x ELSE st.a,
             !.c = IF u >= st.x THEN st.c ELSE st.x,
             !.v = st.w, !.w = st.x, !.x = u,
             !.fv = st.fw, !.fw = st.fx, !.fx = fu,
             !.e = mv.e, !.d = mv.d]

\* The bookkeeping of brentSearch after f(u): fu > fx.
brentWorse(st, u, fu, mv) ==
  LET bounds == [st EXCEPT !.a = IF u < st.x THEN u ELSE st.a,
                           !.c = IF u < st.x THEN st.c ELSE u,
                           !.e = mv.e, !.d = mv.d]
  IN IF fu <= st.fw \/ st.w = st.x
     THEN [bounds EXCEPT !.v = st.w, !.w = u, !.fv = st.fw, !.fw = fu]
     ELSE IF fu <= st.fv \/ st.v = st.x \/ st.v = st.w
          THEN [bounds EXCEPT !.v = u, !.fv = fu]
          ELSE bounds

brentUpdate(st, u, fu, mv) ==
  IF fu <= st.fx THEN brentBetter(st, u, fu, mv) ELSE brentWorse(st, u, fu, mv)

\* The for loop of brentSearch from the state st, pass by pass; the loop ends
\* with the return inside it or at ITMAX.
RECURSIVE brentLoop(_, _, _, _)
brentEval(ctx, st, tol, iter, mv, u) ==
  brentLoop(ctx, brentUpdate(st, u, phi(ctx, u), mv), tol, iter + 1)

brentStep(ctx, st, tol, iter, tol1, mv) ==
  brentEval(ctx, st, tol, iter, mv, brentTrial(st.x, mv.d, tol1))

brentPass(ctx, st, tol, iter, xm, tol1) ==
  IF Abs(st.x - xm) <= 2 * tol1 - HalfOf(st.c - st.a)
  THEN [x |-> st.x, iter |-> iter]
  ELSE brentStep(ctx, st, tol, iter, tol1,
                 brentMove(st, xm, tol1, brentParabola(st)))

brentLoop(ctx, st, tol, iter) ==
  IF ~brentContinues(iter) THEN [x |-> st.x, iter |-> iter]
  ELSE brentPass(ctx, st, tol, iter, HalfOf(st.a + st.c), RMul(tol, Abs(st.x)) + ZEPS)

\* brentSearch after fx = f(x): x = w = v = b, e = d = 0.
brentStart(ctx, a, b, c, tol, fx) ==
  brentLoop(ctx, [a |-> a, c |-> c, x |-> b, w |-> b, v |-> b,
                  fx |-> fx, fw |-> fx, fv |-> fx, e |-> 0, d |-> 0], tol, 0)

brentSearch(ctx, a, b, c, tol) == brentStart(ctx, a, b, c, tol, phi(ctx, b))

\* A faulty line minimizer that takes the first step without comparing values.
optimize1DBlind(ctx, x0, tol) == x0 + BracketStep

\* brentSearch(f, a, b, c, tol) on the bracket { a, b, c }
brentOnBracket(ctx, br, tol) == brentSearch(ctx, br.a, br.b, br.c, tol).x

optimize1D(ctx, x0, tol) ==
  brentOnBracket(ctx, bracketMinimum(ctx, x0, BracketStep), tol)

RECURSIVE MaxAbs(_)
MaxAbs(v) ==
  IF v = <<>> THEN 0
  ELSE LET m == MaxAbs(Tail(v)) IN IF Abs(Head(v)) > m THEN Abs(Head(v)) ELSE m

\* lineSearchAlongDirection: alpha, the value at the new point, and x as the
\* call leaves it (it moves x in place).  A direction whose largest component
\* is below 1e-12, on the grid 0, is not searched.
lineSearchAt(name, alpha, moved) ==
  [alpha |-> alpha, fx |-> Objective(name, moved), x |-> moved]

lineSearchMove(x, direction, name, alpha) ==
  lineSearchAt(name, alpha, MoveAlong(x, direction, alpha))

lineSearchAlongDirection(x, direction, name, tol) ==
  IF MaxAbs(direction) = 0 THEN lineSearchAt(name, 0, x)
  ELSE lineSearchMove(x, direction, name,
         optimize1D([objective |-> name, x |-> x, direction |-> direction],
                    0, tol))

\* for (let iter = 1; iter <= maxIter; iter++)
continueLoopPastCap(iter, maxIter) == iter <= maxIter + 1

continueLoop(iter, maxIter) == iter <= maxIter

\* A faulty test that takes a change of exactly tol for convergence.
convergedAtMost(fxOld, fx, tol) == Abs(fxOld - fx) <= tol

\* let converged = Math.abs(fxOld - fx) < tol, fx being the value the sweep
\* over the directions left.
convergedAfterSweep(fxOld, fx, tol) == Abs(fxOld - fx) < tol

\* 2 * (fxOld - 2 * fx + fpt) * Math.pow(fxOld - fx - biggestDecrease, 2) <
\*   biggestDecrease * Math.pow(fxOld - fpt, 2)
powellInequality(fxOld, fx, fpt, biggestDecrease) ==
  RMul(2 * (fxOld - 2 * fx + fpt),
       RMul(fxOld - fx - biggestDecrease, fxOld - fx - biggestDecrease))
    < RMul(biggestDecrease, RMul(fxOld - fpt, fxOld - fpt))

\* A faulty test that does without fpt < fx.
powellTestLoose(fxOld, fx, fpt, biggestDecrease, biggestIdx) ==
  /\ biggestIdx # -1
  /\ powellInequality(fxOld, fx, fpt, biggestDecrease)

\* The test that lets the extrapolated direction replace a direction.
powellTest(fxOld, fx, fpt, biggestDecrease, biggestIdx) ==
  /\ fpt < fx
  /\ biggestIdx # -1
  /\ powellInequality(fxOld, fx, fpt, biggestDecrease)

----------------------------------------------------------------------------
(* State machine: one call of minimize *)

MaxDims == 2

MaxIterCap == 2

StartVals == {0, (3 * Scale) \div 2}

\* Tolerances: two near the resolution of the numbers, and one that the
\* change of a whole sweep often stays below.
TolInputs == {1, 5, Scale}

\* Arrays are objects: opt.xObj names the array object that the variable x of
\* minimize refers to, "initialParams" being the caller's array.  A faulty
\* minimize that works on the caller's array in place.
Float64ArrayView(source) == source

\* Float64Array.from(initialParams): a new typed array with the same numbers.
Float64ArrayFrom(source) == "x"

\* Array.from(x): a new array with the same numbers.
ArrayFrom(source) == "ret"

InitMin ==
  /\ Config = DefaultConfig
  /\ RestIdle
  /\ kp = KpIdle
  /\ pix = PixIdle
  /\ proj = ProjIdle
  /\ \E n \in 1..MaxDims :
       \E initialParams \in [1..n -> StartVals], name \in ObjectiveNames,
          maxIter \in 0..MaxIterCap, tol \in TolInputs :
         opt = [OptIdle EXCEPT !.pc = "call", !.objective = name,
                               !.initialParams = initialParams,
                               !.maxIter = maxIter, !.tol = tol]
  /\ sp = SpIdle

\* minimize up to its loop: x = Float64Array.from(initialParams),
\* fx = objective(x), the directions are the unit vectors.
MinimizeEnter ==
  /\ opt.pc = "call"
  /\ LET n == Len(opt.initialParams)
     IN opt' = [opt EXCEPT
                  !.pc = "loop",
                  !.x = opt.initialParams,
                  !.xObj = Float64ArrayFrom("initialParams"),
                  !.fx = Objective(opt.objective, opt.initialParams),
                  !.directions = [i \in 1..n |-> [j \in 1..n |->
                                    IF i = j THEN Scale ELSE 0]],
                  !.iter = 1]
  /\ UNCHANGED <<Config, kp, pix, proj, sp, rest>>

\* The head of the outer loop and the first statements of its body.
LoopHead ==
  /\ opt.pc = "loop"
  /\ IF continueLoop(opt.iter, opt.maxIter)
     THEN opt' = [opt EXCEPT !.pc = "sweep", !.sweeps = @ + 1, !.xOld = opt.x,
                             !.fxOld = opt.fx, !.biggestDecrease = 0,
                             !.biggestIdx = -1, !.i = 0]
     ELSE opt' = [opt EXCEPT !.pc = "return"]
  /\ UNCHANGED <<Config, kp, pix, proj, sp, rest>>

\* The body of the inner loop of minimize after its line search returned ls:
\* o is the record of minimize's locals.
sweepPass(o, ls) ==
  [o EXCEPT
     !.x = ls.x,
     !.fx = IF ls.alpha # 0 THEN ls.fx ELSE o.fx,
     !.biggestDecrease =
        IF ls.alpha # 0 /\ o.fx - ls.fx > o.biggestDecrease THEN o.fx - ls.fx ELSE @,
     !.biggestIdx =
        IF ls.alpha # 0 /\ o.fx - ls.fx > o.biggestDecrease THEN o.i ELSE @,
     !.i = o.i + 1,
     !.pc = IF o.i + 1 < Len(o.x) THEN "sweep" ELSE "extrapolate"]

\* The end of the body of the outer loop: test is the outcome of powellTest,
\* ls the line search along delta made when test holds, replaced whether that
\* search moved.
extrapolateEnd(o, delta, test, ls, replaced) ==
  [o EXCEPT
     !.x = IF test THEN ls.x ELSE o.x,
     !.fx = IF replaced THEN ls.fx ELSE o.fx,
     !.fxSweep = o.fx,
     !.replaced = replaced,
     !.searched = test,
     !.directions = IF replaced
                    THEN [o.directions EXCEPT ![o.biggestIdx + 1] = delta]
                    ELSE o.directions,
     !.converged = convergedAfterSweep(o.fxOld, o.fx, o.tol) /\ ~replaced,
     !.iter = IF convergedAfterSweep(o.fxOld, o.fx, o.tol) /\ ~replaced
              THEN o.iter ELSE o.iter + 1,
     !.pc = IF convergedAfterSweep(o.fxOld, o.fx, o.tol) /\ ~replaced
            THEN "return" ELSE "loop"]

extrapolateSearch(o, delta, test, ls) ==
  extrapolateEnd(o, delta, test, ls, test /\ ls.alpha # 0)

extrapolateTest(o, delta, fpt) ==
  extrapolateSearch(o, delta,
    powellTest(o.fxOld, o.fx, fpt, o.biggestDecrease, o.biggestIdx),
    lineSearchAlongDirection(o.x, delta, o.objective, o.tol))

\* delta = x - xOld, pt = x + delta, fpt = objective(pt)
extrapolateFrom(o, delta) ==
  extrapolateTest(o, delta,
    Objective(o.objective, [i \in DOMAIN o.x |-> o.x[i] + delta[i]]))

\* One pass of the inner loop: the line search along directions[i].
LineSearch ==
  /\ opt.pc = "sweep"
  /\ opt' = sweepPass(opt, lineSearchAlongDirection(
                              opt.x, At(opt.directions, opt.i),
                              opt.objective, opt.tol))
  /\ UNCHANGED <<Config, kp, pix, proj, sp, rest>>

\* The rest of the body: the convergence test, the extrapolated point, the
\* line search along delta when powellTest allows it, break or iter++.
Extrapolate ==
  /\ opt.pc = "extrapolate"
  /\ opt' = extrapolateFrom(opt, [i \in DOMAIN opt.x |-> opt.x[i] - opt.xOld[i]])
  /\ UNCHANGED <<Config, kp, pix, proj, sp, rest>>

\* return { x: Array.from(x), fx }
MinimizeReturn ==
  /\ opt.pc = "return"
  /\ opt' = [opt EXCEPT !.pc = "done",
                        !.ret = <<[x |-> opt.x, fx |-> opt.fx,
                                   xObj |-> ArrayFrom(opt.xObj)]>>]
  /\ UNCHANGED <<Config, kp, pix, proj, sp, rest>>

NextMin == MinimizeEnter \/ LoopHead \/ LineSearch \/ Extrapolate \/ MinimizeReturn

SpecMin == InitMin /\ [][NextMin]_vars

InMinimize == opt.pc \in {"loop", "sweep", "extrapolate", "return", "done"}

\* C5: the value fx tracked by minimize never increases: no line search and
\* no other step raises it, at the head of every outer iteration after the
\* first it is at most its value at the start of the iteration before, and the
\* value returned is at most objective(initialParams).
C5_NeverIncreases ==
  /\ [][InMinimize => opt'.fx <= opt.fx]_vars
  /\ [](opt.pc = "loop" /\ opt.sweeps > 0 => opt.fx <= opt.fxOld)
  /\ [](opt.pc = "done" =>
          opt.ret[1].fx <= Objective(opt.objective, opt.initialParams))

\* A search in two dimensions that came back with a smaller value than it
\* started from after replacing a direction by the extrapolated one.
C5_Witness ==
  /\ opt.pc = "done"
  /\ Len(opt.x) = 2
  /\ opt.ret[1].fx < Objective(opt.objective, opt.initialParams)
  /\ \E i \in DOMAIN opt.directions : \E j \in DOMAIN opt.directions[i] :
       opt.directions[i][j] \notin {0, Scale}

\* C6: minimize runs at most maxIter outer iterations, and when the cap ends
\* the loop it returns the current point x and fx without an error, fx being
\* the objective at the returned x.
C6_IterationCap ==
  /\ opt.sweeps <= opt.maxIter
  /\ opt.pc = "done" =>
       /\ Len(opt.ret) = 1
       /\ opt.ret[1].x = opt.x
       /\ opt.ret[1].fx = opt.fx
       /\ opt.ret[1].fx = Objective(opt.objective, opt.ret[1].x)

\* A call that used up its two iterations without meeting the tolerance and
\* returned a point other than the initial one.
C6_Witness ==
  /\ opt.pc = "done"
  /\ opt.maxIter = 2
  /\ opt.sweeps = opt.maxIter
  /\ ~opt.converged
  /\ opt.ret[1].x # opt.initialParams

\* The numbers now in the caller's array: those it held at the call, unless
\* x is that very array, and then those of x.
CallerArray ==
  IF opt.xObj = "initialParams" THEN opt.x ELSE opt.initialParams

\* C18: minimize never modifies the initialParams array it is given, and the
\* x it returns is a new array, neither the caller's array nor the typed
\* array it worked on, holding the final point.
C18_CopiedInAndOut ==
  /\ opt.xObj # "none" => CallerArray = opt.initialParams
  /\ opt.pc = "done" =>
       /\ opt.ret[1].xObj \notin {"initialParams", opt.xObj}
       /\ opt.ret[1].x = opt.x

\* A call that has returned a point different from the one it was given.
C18_Witness ==
  /\ opt.pc = "done"
  /\ opt.ret[1].x # opt.initialParams
  /\ opt.iter > 1

\* When the sweep of an outer iteration has ended: delta = x - xOld and the
\* value fpt of the objective at pt = x + delta.
Delta == [i \in DOMAIN opt.x |-> opt.x[i] - opt.xOld[i]]

Fpt == Objective(opt.objective, [i \in DOMAIN opt.x |-> opt.x[i] + Delta[i]])

\* The direction set holds n directions of n components, and before the first
\* iteration they are the standard basis vectors.
DirectionsShape ==
  InMinimize =>
    /\ Len(opt.directions) = Len(opt.initialParams)
    /\ \A i \in DOMAIN opt.directions :
         Len(opt.directions[i]) = Len(opt.initialParams)
    /\ opt.sweeps = 0 =>
         \A i, j \in DOMAIN opt.directions :
           opt.directions[i][j] = IF i = j THEN Scale ELSE 0

\* The direction set with the direction of the largest decrease replaced by
\* delta.
Replaced ==
  [i \in DOMAIN opt.directions |->
     IF i = opt.biggestIdx + 1 THEN Delta ELSE opt.directions[i]]

\* C26 as stated: n directions, at first the standard basis; in an outer
\* iteration where 2*(fxOld - 2fx + fpt)*(fxOld - fx - biggest)^2 <
\* biggest*(fxOld - fpt)^2 the direction of the largest decrease is replaced
\* by delta and one more line search is made along delta; in every other
\* iteration the direction set is unchanged.
C26_ReplacedWhenInequality ==
  /\ []DirectionsShape
  /\ [][/\ InMinimize /\ opt.pc # "extrapolate" => opt'.directions = opt.directions
        /\ opt.pc = "extrapolate" =>
             IF powellInequality(opt.fxOld, opt.fx, Fpt, opt.biggestDecrease)
             THEN opt'.searched /\ opt'.directions = Replaced
             ELSE ~opt'.searched /\ opt'.directions = opt.directions]_vars

\* C26, amended: n directions, at first the standard basis; in an outer
\* iteration where fpt < fx, some direction of the sweep gave a decrease and
\* the Powell inequality holds, one more line search is made along delta,
\* and when that search moves x (alpha # 0) the direction of the largest
\* decrease is replaced by delta; in every other iteration, and at every
\* other step, the direction set is unchanged.
C26_DirectionSet ==
  /\ []DirectionsShape
  /\ [][/\ InMinimize /\ opt.pc # "extrapolate" => opt'.directions = opt.directions
        /\ opt.pc = "extrapolate" =>
             /\ opt'.searched =
                  (/\ Fpt < opt.fx
                   /\ opt.biggestIdx # -1
                   /\ powellInequality(opt.fxOld, opt.fx, Fpt, opt.biggestDecrease))
             /\ opt'.replaced = (opt'.searched /\ opt'.x # opt.x)
             /\ opt'.directions =
                  IF opt'.replaced THEN Replaced ELSE opt.directions]_vars

\* The inequality held at a point pt with fpt >= fx: no line search along
\* delta was made and the direction set was left as it was.
C26_Witness ==
  /\ opt.pc \in {"loop", "return"}
  /\ opt.sweeps > 0
  /\ ~opt.searched
  /\ opt.x # opt.xOld
  /\ opt.fx = opt.fxSweep
  /\ powellInequality(opt.fxOld, opt.fx, Fpt, opt.biggestDecrease)
  /\ Fpt >= opt.fx

\* A direction has been replaced by delta in a search over two dimensions.
C26_ReplacedOne ==
  /\ opt.pc = "loop"
  /\ opt.replaced
  /\ Len(opt.x) = 2
  /\ \E i \in DOMAIN opt.directions : \E j \in DOMAIN opt.directions[i] :
       opt.directions[i][j] \notin {0, Scale}

\* An outer iteration has ended and the loop has not been left by break.
IterationPassed == opt.pc = "loop" /\ opt.sweeps > 0

\* C25 as stated: minimize stops at the end of the first outer iteration in
\* which the change |fxOld - fx| of the objective over that iteration is
\* below tol, or when maxIter is reached, and never before one of the two.
C25_StopsOnSmallChange ==
  /\ IterationPassed /\ continueLoop(opt.iter, opt.maxIter) =>
       ~(Abs(opt.fxOld - opt.fx) < opt.tol)
  /\ opt.pc = "return" =>
       \/ opt.sweeps > 0 /\ Abs(opt.fxOld - opt.fx) < opt.tol
       \/ ~continueLoop(opt.iter, opt.maxIter)

\* C25, amended: minimize leaves its loop at the end of the first outer
\* iteration in which the change |fxOld - fx| over the sweep of the n
\* directions is below tol and no line search along delta has moved x after
\* it, or when maxIter iterations have run, and never before one of the two.
C25_StopRule ==
  /\ IterationPassed =>
       ~(Abs(opt.fxOld - opt.fxSweep) < opt.tol /\ ~opt.replaced)
  /\ opt.pc = "return" =>
       \/ /\ opt.sweeps > 0
          /\ opt.converged
          /\ Abs(opt.fxOld - opt.fxSweep) < opt.tol
          /\ ~opt.replaced
          /\ opt.fx = opt.fxSweep
       \/ /\ ~opt.converged
          /\ ~continueLoop(opt.iter, opt.maxIter)
          /\ opt.sweeps = opt.maxIter

\* The objective changed by less than tol over a whole iteration, sweep and
\* line search along delta together; that search moved x and replaced a
\* direction, and minimize goes on to the next iteration.
C25_Witness ==
  /\ IterationPassed
  /\ continueLoop(opt.iter, opt.maxIter)
  /\ opt.replaced
  /\ Abs(opt.fxOld - opt.fxSweep) < opt.tol
  /\ Abs(opt.fxOld - opt.fx) < opt.tol
  /\ opt.fx < opt.fxSweep

\* A sweep changed the objective by less than tol, nothing was replaced, and
\* minimize left its loop before the cap.
C25_Converged ==
  /\ opt.pc = "return"
  /\ opt.converged
  /\ opt.sweeps < opt.maxIter
  /\ opt.fxOld # opt.fx

----------------------------------------------------------------------------
(* Span assembly (src/spans.js, ContourInfo of src/contours.js) *)

\* atan(2^-i) in millionths of a degree, i = 0, 1, ...
AtanTable ==
  <<45000000, 26565051, 14036243, 7125016, 3576334, 1789911, 895174, 447614,
    223811, 111906, 55953, 27976, 13988, 6994, 3497, 1749, 874, 437, 219, 109,
    55, 27, 14, 7>>

\* The angle of the vector (x, y), x > 0 and y >= 0, in millionths of a degree,
\* by rotating the vector onto the x axis through the angles of AtanTable.
RECURSIVE CordicAtan(_, _, _, _)
CordicAtan(x, y, z, i) ==
  IF i > Len(AtanTable) THEN z
  ELSE IF y >= 0
       THEN CordicAtan(x + y \div 2 ^ (i - 1), y - x \div 2 ^ (i - 1),
                       z + AtanTable[i], i + 1)
       ELSE CordicAtan(x - y \div 2 ^ (i - 1), y + x \div 2 ^ (i - 1),
                       z - AtanTable[i], i + 1)

\* Math.atan2(y, x) * 180 / Math.PI of two finite numbers, to the nearest
\* thousandth of a degree; exact on the axes.  Defined for vectors of at most
\* 400 units in the common denominator of x and y.
Atan2Deg(y, x) ==
  LET yi == y.n * x.d
      xi == x.n * y.d
      acute == (CordicAtan(Abs(xi) * 2 ^ 20, Abs(yi) * 2 ^ 20, 0, 1) + 500) \div 1000
      mag == IF xi = 0 THEN 90000
             ELSE IF yi = 0 THEN (IF xi > 0 THEN 0 ELSE 180000)
             ELSE IF xi > 0 THEN acute ELSE 180000 - acute
  IN CASE Abs(xi) <= 400 /\ Abs(yi) <= 400 ->
       IF xi = 0 /\ yi = 0 THEN Zero
       ELSE Rat((IF yi < 0 THEN -1 ELSE 1) * mag, 1000)

\* Newton's iteration for the floor of the square root of n >= 1, from r.
RECURSIVE NewtonSqrt(_, _)
NewtonSqrt(n, r) ==
  LET next == (r + n \div r) \div 2
  IN IF next >= r THEN r ELSE NewtonSqrt(n, next)

\* Math.sqrt of a finite number >= 0, to 1/100: the exact root where there is
\* one, the root rounded down to the hundredth otherwise.
IRoot(n) == IF n = 0 THEN 0 ELSE NewtonSqrt(n, n)

SqrtHundredths(a) ==
  IF IRoot(a.n) * IRoot(a.n) = a.n /\ IRoot(a.d) * IRoot(a.d) = a.d
  THEN Rat(IRoot(a.n), IRoot(a.d))
  ELSE Rat(IRoot((a.n * 10000) \div a.d), 100)

\* Array.prototype.sort(compare), which is stable: e goes in front of the
\* first element it is less than.
StableInsert(less(_, _), s, e) ==
  LET after == {k \in 1..Len(s) : less(e, s[k])}
      p == IF after = {} THEN Len(s) + 1
           ELSE CHOOSE k \in after : \A m \in after : k <= m
  IN SubSeq(s, 1, p - 1) \o <<e>> \o SubSeq(s, p, Len(s))

RECURSIVE SortFrom(_, _, _, _)
SortFrom(less(_, _), a, k, sorted) ==
  IF k > Len(a) THEN sorted
  ELSE SortFrom(less, a, k + 1, StableInsert(less, sorted, a[k]))

Sort(less(_, _), a) == SortFrom(less, a, 1, <<>>)

\* cv.moments of the outline of a filled axis-aligned rectangle of pixels:
\* the centroid is the middle of the outline, mu11 is 0, and mu20 >= mu02
\* exactly when the rectangle is at least as wide as it is high.
blobMeanAndTangent(rect) ==
  [center |-> <<NAdd(Int2Num(rect.x), Rat(rect.width - 1, 2)),
                NAdd(Int2Num(rect.y), Rat(rect.height - 1, 2))>>,
   tangent |-> IF rect.width >= rect.height THEN <<One, Zero>>
               ELSE <<Zero, One>>]

\* ContourInfo.getPoints: the extreme points of the outline.
getPoints(rect) ==
  {<<Int2Num(x), Int2Num(y)>> :
     x \in {rect.x, rect.x + rect.width - 1},
     y \in {rect.y, rect.y + rect.height - 1}}

\* ContourInfo.projX: dot(tangent, point - center)
projX(this, point) ==
  LET dx == NSub(point[1], this.center[1])
      dy == NSub(point[2], this.center[2])
  IN NAdd(NMul(this.tangent[1], dx), NMul(this.tangent[2], dy))

\* Math.min(...clx) and Math.max(...clx) of a non-empty set of finite numbers.
MinOf(S) == CHOOSE a \in S : \A b \in S : ~NLt(b, a)

MaxOf(S) == CHOOSE a \in S : \A b \in S : ~NLt(a, b)

\* new ContourInfo(contour, moments, rect, mask); pred and succ are the ids of
\* the linked records, 0 for null.
ContourInfo(id, moments, rect) ==
  LET base == [center |-> moments.center, tangent |-> moments.tangent]
      clx == {projX(base, p) : p \in getPoints(rect)}
      lxmin == MinOf(clx)
      lxmax == MaxOf(clx)
  IN [id |-> id,
      rect |-> rect,
      center |-> moments.center,
      tangent |-> moments.tangent,
      angle |-> Atan2Deg(moments.tangent[2], moments.tangent[1]),
      local_xrng |-> <<lxmin, lxmax>>,
      point0 |-> <<NAdd(moments.center[1], NMul(moments.tangent[1], lxmin)),
                   NAdd(moments.center[2], NMul(moments.tangent[2], lxmin))>>,
      point1 |-> <<NAdd(moments.center[1], NMul(moments.tangent[1], lxmax)),
                   NAdd(moments.center[2], NMul(moments.tangent[2], lxmax))>>,
      pred |-> 0,
      succ |-> 0]

\* min(a_end, b_end) - max(a_start, b_start)
intervalMeasureOverlap(int_a, int_b) ==
  NSub(NMin(int_a[2], int_b[2]), NMax(int_a[1], int_b[1]))

\* ContourInfo.localOverlap
localOverlap(this, other) ==
  intervalMeasureOverlap(this.local_xrng,
                         <<projX(this, other.point0), projX(this, other.point1)>>)

\* angleDist, on degrees: the difference brought into [-180, 180], absolute.
angleDist(angleB, angleA) ==
  LET diff == NSub(angleB, angleA)
      down == IF NLt(Int2Num(180), diff) THEN NSub(diff, Int2Num(360)) ELSE diff
      up == IF NLt(down, Int2Num(-180)) THEN NAdd(down, Int2Num(360)) ELSE down
  IN NAbs(up)

\* generateCandidateEdge: the empty list for null, else the one edge.  Angles
\* are kept in degrees throughout.  dist > EDGE_MAX_LENGTH is decided on the
\* squares, exactly; the score uses the rounded root.
generateCandidateEdge(a, b, cfg) ==
  LET swap == NLt(b.point1[1], a.point0[1])
      cinfoA == IF swap THEN b ELSE a
      cinfoB == IF swap THEN a ELSE b
      xOverlapA == localOverlap(cinfoA, cinfoB)
      xOverlapB == localOverlap(cinfoB, cinfoA)
      overallTangent == <<NSub(cinfoB.center[1], cinfoA.center[1]),
                          NSub(cinfoB.center[2], cinfoA.center[2])>>
      overallAngle == Atan2Deg(overallTangent[2], overallTangent[1])
      deltaAngle == NMax(angleDist(cinfoA.angle, overallAngle),
                         angleDist(cinfoB.angle, overallAngle))
      xOverlap == NMax(xOverlapA, xOverlapB)
      ex == NSub(cinfoB.point0[1], cinfoA.point1[1])
      ey == NSub(cinfoB.point0[2], cinfoA.point1[2])
      distSq == NAdd(NMul(ex, ex), NMul(ey, ey))
      tooLong == \/ NLt(cfg.EDGE_MAX_LENGTH, Zero)
                 \/ NLt(NMul(cfg.EDGE_MAX_LENGTH, cfg.EDGE_MAX_LENGTH), distSq)
      score == NAdd(SqrtHundredths(distSq), NMul(deltaAngle, cfg.EDGE_ANGLE_COST))
  IN IF \/ tooLong
        \/ NLt(cfg.EDGE_MAX_OVERLAP, xOverlap)
        \/ NLt(cfg.EDGE_MAX_ANGLE, deltaAngle)
     THEN <<>>
     ELSE <<[score |-> score, cinfoA |-> cinfoA.id, cinfoB |-> cinfoB.id]>>

\* A faulty comparator that looks at rect.y alone.
rectBeforeByY(a, b) == a.rect.y < b.rect.y

\* The comparator of sortContoursForAssembly, negative.
rectBefore(a, b) ==
  \/ a.rect.y < b.rect.y
  \/ /\ a.rect.y = b.rect.y
     /\ \/ a.rect.x < b.rect.x
        \/ /\ a.rect.x = b.rect.x
           /\ \/ a.rect.width < b.rect.width
              \/ /\ a.rect.width = b.rect.width
                 /\ a.rect.height < b.rect.height

\* sortContoursForAssembly, on the list of records.
sortContoursForAssembly(cinfoList) == Sort(rectBefore, cinfoList)

\* generateAllCandidateEdges: for i, for j < i, in this order.
RECURSIVE generateEdgesFrom(_, _, _, _)
generateEdgesFrom(cinfoList, i, j, cfg) ==
  IF i > Len(cinfoList) THEN <<>>
  ELSE IF j >= i THEN generateEdgesFrom(cinfoList, i + 1, 1, cfg)
  ELSE generateCandidateEdge(cinfoList[i], cinfoList[j], cfg)
         \o generateEdgesFrom(cinfoList, i, j + 1, cfg)

generateAllCandidateEdges(cinfoList, cfg) == generateEdgesFrom(cinfoList, 1, 1, cfg)

\* A faulty comparison that sorts the edges by descending score.
scoreAfter(a, b) == NLt(b.score, a.score)

scoreBefore(a, b) == NLt(a.score, b.score)

\* A faulty loop that commits every edge, whatever links its ends have.
RECURSIVE linkFromAlways(_, _, _)
linkFromAlways(contours, edges, k) ==
  IF k > Len(edges) THEN contours
  ELSE linkFromAlways([contours EXCEPT ![edges[k].cinfoA].succ = edges[k].cinfoB,
                                       ![edges[k].cinfoB].pred = edges[k].cinfoA],
                      edges, k + 1)

\* The loop of linkContours over the sorted edges; contours maps an id to its
\* record.
RECURSIVE linkFrom(_, _, _)
linkFrom(contours, edges, k) ==
  IF k > Len(edges) THEN contours
  ELSE LET a == edges[k].cinfoA
           b == edges[k].cinfoB
       IN linkFrom(IF contours[a].succ = 0 /\ contours[b].pred = 0
                   THEN [contours EXCEPT ![a].succ = b, ![b].pred = a]
                   ELSE contours,
                   edges, k + 1)

\* linkContours: sort by score, then link greedily.
linkContours(contours, candidateEdges) ==
  linkFrom(contours, Sort(scoreBefore, candidateEdges), 1)

----------------------------------------------------------------------------
(* assembleSpans as a state machine; the loops of extractSpans step by step *)

MaxContours == 3

Rect(x, y, width, height) == [x |-> x, y |-> y, width |-> width, height |-> height]

\* Bounding boxes of text blobs: two words on the first row, a far word on
\* the same row, and three words on three rows whose ends overlap by a pixel.
RectChoices ==
  {Rect(0, 0, 21, 2), Rect(25, 0, 30, 2), Rect(150, 0, 40, 2),
   Rect(19, 3, 42, 2), Rect(59, 6, 22, 2), Rect(24, 6, 32, 3)}

\* --max-edge-angle of the command line goes into Config before any image is
\* processed.
MaxEdgeAngles == {Rat(15, 2), Int2Num(180)}

\* --min-span-width of the command line: the default, and the extent of a
\* blob 30 pixels wide.
MinSpanWidths == {Int2Num(30), Int2Num(29)}

InitSpans ==
  /\ \E angle \in MaxEdgeAngles, minWidth \in MinSpanWidths :
       Config = updateConfig(DefaultConfig, [EDGE_MAX_ANGLE |-> angle,
                                            SPAN_MIN_WIDTH |-> minWidth])
  /\ RestIdle
  /\ kp = KpIdle
  /\ pix = PixIdle
  /\ proj = ProjIdle
  /\ opt = OptIdle
  /\ \E n \in 0..MaxContours : \E rects \in [1..n -> RectChoices] :
       /\ \A i, j \in 1..n : rects[i] = rects[j] => i = j
       /\ sp = [SpIdle EXCEPT
                  !.pc = "start",
                  !.contours = [id \in 1..n |->
                     ContourInfo(id, blobMeanAndTangent(rects[id]), rects[id])],
                  !.cinfoList = [k \in 1..n |-> k]]

\* assembleSpans: sortContoursForAssembly(cinfoList)
SortContoursForAssembly ==
  /\ sp.pc = "start"
  /\ LET sorted == sortContoursForAssembly(
                     [k \in DOMAIN sp.cinfoList |-> sp.contours[sp.cinfoList[k]]])
     IN sp' = [sp EXCEPT !.pc = "sorted",
                         !.cinfoList = [k \in DOMAIN sorted |-> sorted[k].id]]
  /\ UNCHANGED <<Config, kp, pix, proj, opt, rest>>

\* assembleSpans: generateAllCandidateEdges(cinfoList, stats)
GenerateAllCandidateEdges ==
  /\ sp.pc = "sorted"
  /\ sp' = [sp EXCEPT
              !.pc = "edges",
              !.candidateEdges = generateAllCandidateEdges(
                 [k \in DOMAIN sp.cinfoList |-> sp.contours[sp.cinfoList[k]]],
                 Config)]
  /\ UNCHANGED <<Config, kp, pix, proj, opt, rest>>

\* assembleSpans: linkContours(candidateEdges), which sorts the edges in place
LinkContours ==
  /\ sp.pc = "edges"
  /\ sp' = [sp EXCEPT
              !.pc = "linked",
              !.candidateEdges = Sort(scoreBefore, sp.candidateEdges),
              !.contours = linkContours(sp.contours, sp.candidateEdges)]
  /\ UNCHANGED <<Config, kp, pix, proj, opt, rest>>

\* extractSpans: spans = [], listCopy = [...cinfoList]
ExtractSpansEnter ==
  /\ sp.pc = "linked"
  /\ sp' = [sp EXCEPT !.pc = "outer", !.spans = <<>>, !.listCopy = sp.cinfoList,
                      !.chains = <<>>, !.spanWidths = <<>>, !.spanSizes = <<>>]
  /\ UNCHANGED <<Config, kp, pix, proj, opt, rest>>

\* while (listCopy.length > 0) { let cinfo = listCopy[0];
PickFirst ==
  /\ sp.pc = "outer"
  /\ sp.listCopy # <<>>
  /\ sp' = [sp EXCEPT !.pc = "pred", !.cinfo = sp.listCopy[1]]
  /\ UNCHANGED <<Config, kp, pix, proj, opt, rest>>

\* while (cinfo.pred) cinfo = cinfo.pred;  -- one turn of the loop
WalkPred ==
  /\ sp.pc = "pred"
  /\ sp.contours[sp.cinfo].pred # 0
  /\ sp' = [sp EXCEPT !.cinfo = sp.contours[sp.cinfo].pred]
  /\ UNCHANGED <<Config, kp, pix, proj, opt, rest>>

\* the loop above left at a record without pred: curSpan = [], width = 0.0
BeginSpan ==
  /\ sp.pc = "pred"
  /\ sp.contours[sp.cinfo].pred = 0
  /\ sp' = [sp EXCEPT !.pc = "succ", !.curSpan = <<>>, !.width = Zero]
  /\ UNCHANGED <<Config, kp, pix, proj, opt, rest>>

\* while (cinfo) { splice cinfo out of listCopy; curSpan.push(cinfo);
\*                 width += ...; cinfo = cinfo.succ }  -- one turn of the loop
WalkSucc ==
  /\ sp.pc = "succ"
  /\ sp.cinfo # 0
  /\ LET c == sp.contours[sp.cinfo]
     IN sp' = [sp EXCEPT
                 !.listCopy = SelectSeq(sp.listCopy, LAMBDA id : id # sp.cinfo),
                 !.curSpan = Append(sp.curSpan, sp.cinfo),
                 !.width = NAdd(sp.width, NSub(c.local_xrng[2], c.local_xrng[1])),
                 !.cinfo = c.succ]
  /\ UNCHANGED <<Config, kp, pix, proj, opt, rest>>

\* A faulty test that keeps a chain of exactly the minimum width.
keepSpanAtLeast(width, cfg) == ~NLt(width, cfg.SPAN_MIN_WIDTH)

\* width > Config.SPAN_MIN_WIDTH
keepSpan(width, cfg) == NLt(cfg.SPAN_MIN_WIDTH, width)

\* if (width > Config.SPAN_MIN_WIDTH) { spans.push(curSpan);
\*   stats.spanWidths.push(width); stats.spanSizes.push(curSpan.length) }
\* chains keeps every chain walked, returned or not.
EndSpan ==
  /\ sp.pc = "succ"
  /\ sp.cinfo = 0
  /\ sp' = IF keepSpan(sp.width, Config)
           THEN [sp EXCEPT !.pc = "outer",
                           !.chains = Append(@, sp.curSpan),
                           !.spans = Append(@, sp.curSpan),
                           !.spanWidths = Append(@, sp.width),
                           !.spanSizes = Append(@, Len(sp.curSpan))]
           ELSE [sp EXCEPT !.pc = "outer", !.chains = Append(@, sp.curSpan)]
  /\ UNCHANGED <<Config, kp, pix, proj, opt, rest>>

\* A faulty extractSpans that splices the caller's list itself
\* (listCopy = cinfoList).
callerListAliased(cinfoList, listCopy) == listCopy

\* const listCopy = [...cinfoList]: the splices fall on the copy and the
\* caller's list is what the sort left.
callerList(cinfoList, listCopy) == cinfoList

\* return spans
ExtractSpansReturn ==
  /\ sp.pc = "outer"
  /\ sp.listCopy = <<>>
  /\ sp' = [sp EXCEPT !.pc = "done",
                      !.cinfoList = callerList(sp.cinfoList, sp.listCopy)]
  /\ UNCHANGED <<Config, kp, pix, proj, opt, rest>>

\* Runs of assembleSpans on one contour list.
MaxRuns == 2

\* The caller keeps what assembleSpans returned and calls it again with the
\* same list, which holds the same ContourInfo objects, links included.
AssembleSpansAgain ==
  /\ sp.pc = "done"
  /\ Len(sp.first) + 1 < MaxRuns
  /\ sp' = [sp EXCEPT !.pc = "start",
                      !.first = Append(@, [spans |-> sp.spans,
                                           contours |-> sp.contours])]
  /\ UNCHANGED <<Config, kp, pix, proj, opt, rest>>

NextSpans ==
  \/ SortContoursForAssembly \/ GenerateAllCandidateEdges \/ LinkContours
  \/ ExtractSpansEnter \/ PickFirst \/ WalkPred \/ BeginSpan \/ WalkSucc
  \/ EndSpan \/ ExtractSpansReturn \/ AssembleSpansAgain

SpecSpans == InitSpans /\ [][NextSpans]_vars

Linked == sp.pc \in {"linked", "outer", "pred", "succ", "done"}

\* The record reached from id by k steps along pred, 0 once the chain ended.
RECURSIVE PredSteps(_, _, _)
PredSteps(contours, id, k) ==
  IF k = 0 \/ id = 0 THEN id ELSE PredSteps(contours, contours[id].pred, k - 1)

\* C1: after linkContours the pred/succ links contain no cycle: from any
\* contour, following pred reaches a contour with no pred in finitely many
\* steps (fewer than there are contours), so the walks of extractSpans end.
C1_NoCycle ==
  Linked => \A id \in DOMAIN sp.contours :
              PredSteps(sp.contours, id, Len(sp.contours)) = 0

\* Three contours linked in a ring, extractSpans walking pred around it.
C1_RingWalked ==
  /\ sp.pc = "pred"
  /\ Len(sp.contours) = 3
  /\ \A id \in DOMAIN sp.contours :
       /\ sp.contours[id].pred # 0
       /\ PredSteps(sp.contours, id, 3) = id

\* C20: once the contours are linked, and so after assembleSpans, every
\* contour has at most one successor and at most one predecessor, a.succ is b
\* if and only if b.pred is a, and no contour is its own successor or
\* predecessor.
C20_DoublyLinked ==
  sp.pc \in {"linked", "outer", "pred", "succ", "done"} =>
    /\ \A a \in DOMAIN sp.contours :
         /\ sp.contours[a].succ \in (DOMAIN sp.contours \cup {0}) \ {a}
         /\ sp.contours[a].pred \in (DOMAIN sp.contours \cup {0}) \ {a}
    /\ \A a, b \in DOMAIN sp.contours :
         sp.contours[a].succ = b <=> sp.contours[b].pred = a

\* assembleSpans has returned for three contours, two of them linked, after
\* an edge into an already linked contour was passed over.
C20_Witness ==
  /\ sp.pc = "done"
  /\ Len(sp.cinfoList) = 3
  /\ \E a, b \in DOMAIN sp.contours : sp.contours[a].succ = b
  /\ \E k \in DOMAIN sp.candidateEdges :
       sp.contours[sp.candidateEdges[k].cinfoA].succ # sp.candidateEdges[k].cinfoB

\* The sum of the local extents of the members of a chain.
RECURSIVE ChainWidth(_, _)
ChainWidth(chain, k) ==
  IF k > Len(chain) THEN Zero
  ELSE NAdd(NSub(sp.contours[chain[k]].local_xrng[2],
                 sp.contours[chain[k]].local_xrng[1]),
            ChainWidth(chain, k + 1))

\* width > SPAN_MIN_WIDTH, as the claim states it.
Wide(chain) ==
  /\ IsFinite(ChainWidth(chain, 1))
  /\ ChainWidth(chain, 1) # Config.SPAN_MIN_WIDTH
  /\ NMax(ChainWidth(chain, 1), Config.SPAN_MIN_WIDTH) = ChainWidth(chain, 1)

\* C21: when extractSpans returns, every contour has been walked in exactly
\* one chain, each chain runs from a contour without pred to a contour without
\* succ in succ order, the spans returned are the chains whose summed local
\* extent is strictly greater than SPAN_MIN_WIDTH, no contour is in two spans
\* or twice in one, and spanSizes and spanWidths have one entry per span.
C21_ChainsToSpans ==
  sp.pc = "done" =>
    /\ \A id \in DOMAIN sp.contours :
         Cardinality({c \in (DOMAIN sp.chains) \X (1..Len(sp.contours)) :
                        /\ c[2] <= Len(sp.chains[c[1]])
                        /\ sp.chains[c[1]][c[2]] = id}) = 1
    /\ \A c \in DOMAIN sp.chains :
         /\ sp.chains[c] # <<>>
         /\ sp.contours[sp.chains[c][1]].pred = 0
         /\ sp.contours[sp.chains[c][Len(sp.chains[c])]].succ = 0
         /\ \A i \in 1..(Len(sp.chains[c]) - 1) :
              sp.contours[sp.chains[c][i]].succ = sp.chains[c][i + 1]
    /\ sp.spans = SelectSeq(sp.chains, Wide)
    /\ Len(sp.spanSizes) = Len(sp.spans)
    /\ Len(sp.spanWidths) = Len(sp.spans)
    /\ \A i \in DOMAIN sp.spans :
         /\ sp.spanSizes[i] = Len(sp.spans[i])
         /\ sp.spanWidths[i] = ChainWidth(sp.spans[i], 1)

\* extractSpans has returned a chain of two contours as a span and has passed
\* over a chain whose width is exactly SPAN_MIN_WIDTH.
C21_Witness ==
  /\ sp.pc = "done"
  /\ \E i \in DOMAIN sp.spans : Len(sp.spans[i]) = 2
  /\ \E c \in DOMAIN sp.chains :
       /\ ChainWidth(sp.chains[c], 1) = Config.SPAN_MIN_WIDTH
       /\ \A i \in DOMAIN sp.spans : sp.spans[i] # sp.chains[c]

\* while (cinfo.pred) cinfo = cinfo.pred
RECURSIVE rootOf(_, _)
rootOf(contours, id) ==
  IF contours[id].pred = 0 THEN id ELSE rootOf(contours, contours[id].pred)

\* The inner loop of extractSpans: the members from id on, in succ order.
RECURSIVE chainFrom(_, _)
chainFrom(contours, id) ==
  IF id = 0 THEN <<>> ELSE <<id>> \o chainFrom(contours, contours[id].succ)

\* width += cinfo.local_xrng[1] - cinfo.local_xrng[0], from 0.0, member by
\* member.
RECURSIVE widthOf(_, _, _, _)
widthOf(contours, chain, k, width) ==
  IF k > Len(chain) THEN width
  ELSE widthOf(contours, chain, k + 1,
               NAdd(width, NSub(contours[chain[k]].local_xrng[2],
                                contours[chain[k]].local_xrng[1])))

RECURSIVE extractFrom(_, _, _, _)

\* One pass of the outer loop of extractSpans: the chain curSpan leaves the
\* list and is kept when it is wide enough.
extractChain(contours, listCopy, spans, cfg, curSpan) ==
  extractFrom(contours,
              SelectSeq(listCopy, LAMBDA id : \A k \in DOMAIN curSpan : curSpan[k] # id),
              IF keepSpan(widthOf(contours, curSpan, 1, Zero), cfg)
              THEN Append(spans, curSpan) ELSE spans,
              cfg)

\* The outer loop of extractSpans, where it ends.
extractFrom(contours, listCopy, spans, cfg) ==
  IF listCopy = <<>> THEN spans
  ELSE extractChain(contours, listCopy, spans, cfg,
                    chainFrom(contours, rootOf(contours, listCopy[1])))

\* extractSpans(cinfoList, stats), the spans.
extractSpans(contours, cinfoList, cfg) == extractFrom(contours, cinfoList, <<>>, cfg)

\* The contours as the constructor leaves them.
Unlinked(contours) ==
  [id \in DOMAIN contours |-> [contours[id] EXCEPT !.succ = 0, !.pred = 0]]

\* The input list in the order perm, sorted by sortContoursForAssembly.
SortedFrom(perm) ==
  sortContoursForAssembly([k \in DOMAIN perm |-> Unlinked(sp.contours)[perm[k]]])

\* The links linkContours sets from the sorted list cinfoList of contours
\* whose links are null.
LinksFrom(cinfoList) ==
  linkContours(Unlinked(sp.contours), generateAllCandidateEdges(cinfoList, Config))

Ids(cinfoList) == [k \in DOMAIN cinfoList |-> cinfoList[k].id]

\* C22: for contours with pairwise distinct bounding rectangles and links
\* null, every order of the input list gives assembleSpans the same sorted
\* list, hence the same pred/succ links and the same spans in the same
\* order: the edges, the links and the spans are computed from the sorted
\* list alone.
C22_OrderIndependent ==
  /\ sp.pc = "linked" =>
       /\ \A perm \in Permutations(DOMAIN sp.contours) :
            Ids(SortedFrom(perm)) = sp.cinfoList
       /\ LinksFrom([k \in DOMAIN sp.cinfoList |-> Unlinked(sp.contours)[sp.cinfoList[k]]])
            = sp.contours
  /\ sp.pc = "done" =>
       extractSpans(sp.contours, sp.cinfoList, Config) = sp.spans

\* assembleSpans has returned two spans for three contours that came in an
\* order other than the sorted one, two of them on the same row.
C22_Witness ==
  /\ sp.pc = "done"
  /\ Len(sp.cinfoList) = 3
  /\ sp.cinfoList # <<1, 2, 3>>
  /\ Len(sp.spans) = 2
  /\ \E a, b \in DOMAIN sp.contours :
       a # b /\ sp.contours[a].rect.y = sp.contours[b].rect.y

\* C23: run again on the same contour list under the same Config,
\* assembleSpans leaves every pred/succ link as the first run set it, at
\* every step of the later run, and returns the same spans, same members in
\* the same order.
C23_SecondRunSame ==
  \A r \in DOMAIN sp.first :
    /\ sp.contours = sp.first[r].contours
    /\ sp.pc = "done" => sp.spans = sp.first[r].spans

\* The second run has returned, the first one having linked three contours
\* into one span while one candidate edge was passed over.
C23_Witness ==
  /\ sp.pc = "done"
  /\ Len(sp.first) = 1
  /\ sp.first[1].spans # <<>>
  /\ \E k \in DOMAIN sp.first[1].spans : Len(sp.first[1].spans[k]) = 3
  /\ Len(sp.candidateEdges) > 2

----------------------------------------------------------------------------
(* linkContours step by step *)

\* Bounding boxes: a word with two words to its right, one row up and one row
\* down, at the same distance; a word further right on the upper row; and
\* two words on a row of their own.
LinkRectChoices ==
  {Rect(0, 3, 20, 2), Rect(30, 0, 20, 2), Rect(30, 6, 20, 2), Rect(60, 0, 20, 2),
   Rect(0, 20, 21, 2), Rect(25, 20, 30, 2)}

InitLink ==
  /\ \E angle \in MaxEdgeAngles :
       Config = updateConfig(DefaultConfig, [EDGE_MAX_ANGLE |-> angle])
  /\ RestIdle
  /\ kp = KpIdle
  /\ pix = PixIdle
  /\ proj = ProjIdle
  /\ opt = OptIdle
  /\ \E n \in 0..MaxContours : \E rects \in [1..n -> LinkRectChoices] :
       /\ \A i, j \in 1..n : rects[i] = rects[j] => i = j
       /\ sp = [SpIdle EXCEPT
                  !.pc = "start",
                  !.contours = [id \in 1..n |->
                     ContourInfo(id, blobMeanAndTangent(rects[id]), rects[id])],
                  !.cinfoList = [k \in 1..n |-> k]]

\* linkContours: candidateEdges.sort(...), in place; discovered keeps the
\* order in which generateAllCandidateEdges pushed the edges.
LinkContoursSort ==
  /\ sp.pc = "edges"
  /\ sp' = [sp EXCEPT !.pc = "linking", !.k = 0,
                      !.discovered = sp.candidateEdges,
                      !.candidateEdges = Sort(scoreBefore, sp.candidateEdges)]
  /\ UNCHANGED <<Config, kp, pix, proj, opt, rest>>

\* One pass of the loop of linkContours (k edges are done).
LinkStep ==
  /\ sp.pc = "linking"
  /\ sp.k < Len(sp.candidateEdges)
  /\ sp' = [sp EXCEPT
              !.k = @ + 1,
              !.contours = linkFrom(@, SubSeq(sp.candidateEdges, sp.k + 1, sp.k + 1), 1)]
  /\ UNCHANGED <<Config, kp, pix, proj, opt, rest>>

LinkContoursReturn ==
  /\ sp.pc = "linking"
  /\ sp.k >= Len(sp.candidateEdges)
  /\ sp' = [sp EXCEPT !.pc = "linked"]
  /\ UNCHANGED <<Config, kp, pix, proj, opt, rest>>

NextLink ==
  \/ SortContoursForAssembly
  \/ GenerateAllCandidateEdges
  \/ LinkContoursSort
  \/ LinkStep
  \/ LinkContoursReturn

SpecLink == InitLink /\ [][NextLink]_vars

\* The place of an edge in the order of discovery.
Discovery(e) == CHOOSE i \in DOMAIN sp.discovered : sp.discovered[i] = e

\* The edges are those discovered, in ascending order of score, edges of equal
\* score in the order of discovery.
SortedStable ==
  /\ Len(sp.candidateEdges) = Len(sp.discovered)
  /\ {sp.candidateEdges[i] : i \in DOMAIN sp.candidateEdges}
       = {sp.discovered[i] : i \in DOMAIN sp.discovered}
  /\ \A i, j \in DOMAIN sp.candidateEdges :
       i < j =>
         /\ ~NLt(sp.candidateEdges[j].score, sp.candidateEdges[i].score)
         /\ sp.candidateEdges[i].score = sp.candidateEdges[j].score =>
              Discovery(sp.candidateEdges[i]) < Discovery(sp.candidateEdges[j])

\* A pass of the loop commits its edge a -> b exactly when a has no successor
\* and b has no predecessor, and changes nothing otherwise.
CommitRule ==
  (sp.pc = "linking" /\ sp'.k = sp.k + 1) =>
    LET a == sp.candidateEdges[sp.k + 1].cinfoA
        b == sp.candidateEdges[sp.k + 1].cinfoB
    IN IF sp.contours[a].succ = 0 /\ sp.contours[b].pred = 0
       THEN sp'.contours = [sp.contours EXCEPT ![a].succ = b, ![b].pred = a]
       ELSE sp'.contours = sp.contours

\* After the loop: the first edge is committed, no edge could still be added,
\* and the links are those linkContours makes in one go.
AllLinked ==
  /\ sp.candidateEdges # <<>> =>
       /\ sp.contours[sp.candidateEdges[1].cinfoA].succ = sp.candidateEdges[1].cinfoB
       /\ sp.contours[sp.candidateEdges[1].cinfoB].pred = sp.candidateEdges[1].cinfoA
  /\ \A i \in DOMAIN sp.candidateEdges :
       \/ sp.contours[sp.candidateEdges[i].cinfoA].succ # 0
       \/ sp.contours[sp.candidateEdges[i].cinfoB].pred # 0
  /\ sp.contours = linkContours(Unlinked(sp.contours), sp.discovered)

\* C19: linkContours takes the accepted edges in ascending order of score,
\* edges of equal score in the order of discovery, and commits an edge a -> b
\* exactly when, at that moment, a has no successor and b has no predecessor;
\* so the lowest-scored edge is committed, and after linking every accepted
\* edge a -> b has a.succ set or b.pred set.
C19_GreedyLinking ==
  /\ [](sp.pc \in {"linking", "linked"} => SortedStable)
  /\ [][CommitRule]_vars
  /\ [](sp.pc = "linked" => AllLinked)

\* Two edges of equal score out of the same contour: the one discovered first
\* is committed, the other is passed over.
C19_Witness ==
  /\ sp.pc = "linked"
  /\ \E i, j \in DOMAIN sp.candidateEdges :
       /\ i < j
       /\ sp.candidateEdges[i].score = sp.candidateEdges[j].score
       /\ sp.candidateEdges[i].cinfoA = sp.candidateEdges[j].cinfoA
       /\ sp.contours[sp.candidateEdges[i].cinfoA].succ = sp.candidateEdges[i].cinfoB
       /\ sp.contours[sp.candidateEdges[j].cinfoB].pred = 0

----------------------------------------------------------------------------
(* Contour detection and filtering (src/contours.js) *)

MaxBlobs == 2

\* A faulty geometry filter that rejects a blob of exactly the minimum width.
filterContourByGeometryStrict(rect, cfg) ==
  IF ~NLt(cfg.TEXT_MIN_WIDTH, Int2Num(rect.width)) THEN "width"
  ELSE IF NLt(Int2Num(rect.height), cfg.TEXT_MIN_HEIGHT) THEN "height"
  ELSE IF NLt(Int2Num(rect.width), NMul(cfg.TEXT_MIN_ASPECT, Int2Num(rect.height)))
    THEN "aspect"
  ELSE "valid"

\* The reason of the rejection, or "valid".
filterContourByGeometry(rect, cfg) ==
  IF NLt(Int2Num(rect.width), cfg.TEXT_MIN_WIDTH) THEN "width"
  ELSE IF NLt(Int2Num(rect.height), cfg.TEXT_MIN_HEIGHT) THEN "height"
  ELSE IF NLt(Int2Num(rect.width), NMul(cfg.TEXT_MIN_ASPECT, Int2Num(rect.height)))
    THEN "aspect"
  ELSE "valid"

\* The loop over the column sums of the tight mask, from column j on.
RECURSIVE maxThicknessFrom(_, _, _)
maxThicknessFrom(colSumsData, j, maxThickness) ==
  IF j > Len(colSumsData) THEN maxThickness
  ELSE maxThicknessFrom(colSumsData, j + 1,
         IF colSumsData[j] > maxThickness THEN colSumsData[j] ELSE maxThickness)

filterContourByThickness(colSumsData, cfg) ==
  IF NLt(cfg.TEXT_MAX_THICKNESS, Int2Num(maxThicknessFrom(colSumsData, 1, 0)))
  THEN "thickness"
  ELSE "valid"

\* blobMeanAndTangent(contour) is null exactly when the area moment is 0.
momentsNull(contour) == contour.m00 = 0

\* stats after a rejection for the given reason.
rejected(stats, key, reason, rect) ==
  [stats EXCEPT
     !.rejectionBreakdown[key] = @ + 1,
     !.sampleRejectedRects =
        IF Len(@) < 20 THEN Append(@, [reason |-> reason, rect |-> rect]) ELSE @]

\* What OpenCV reports of one detected blob: the bounding box, the column
\* sums of the filled contour drawn into a mask the size of the box, and the
\* area moment m00 of the contour polygon.  The thickest column comes first,
\* last or in the middle.
RawContour(width, height, thick, at, m00) ==
  [rect |-> [x |-> 0, y |-> 0, width |-> width, height |-> height],
   colSums |-> [j \in 1..width |-> IF j = at THEN thick ELSE 1],
   m00 |-> m00]

\* Blobs on both sides of every threshold of the default Config, and a
\* staircase one pixel thin whose polygon encloses no area.
RawContourChoices ==
  {RawContour(14, 2, 2, 1, 13), RawContour(15, 2, 2, 15, 14),
   RawContour(16, 1, 1, 1, 0), RawContour(15, 10, 10, 7, 126),
   RawContour(15, 11, 3, 2, 90), RawContour(30, 12, 11, 30, 200),
   RawContour(30, 12, 10, 1, 200), RawContour(16, 2, 1, 1, 0)}

ContourConfigs ==
  {DefaultConfig,
   updateConfig(DefaultConfig, [TEXT_MIN_WIDTH |-> Int2Num(16)]),
   updateConfig(DefaultConfig, [TEXT_MAX_THICKNESS |-> Int2Num(11),
                                TEXT_MIN_ASPECT |-> Int2Num(1)])}

InitContours ==
  /\ Config \in ContourConfigs
  /\ kp = KpIdle
  /\ pix = PixIdle
  /\ proj = ProjIdle
  /\ opt = OptIdle
  /\ sp = SpIdle
  /\ img = ImgIdle /\ dw = DwIdle /\ cu = CuIdle
  /\ \E n \in 0..MaxBlobs : \E found \in [1..n -> RawContourChoices] :
       gc = [GcIdle EXCEPT !.pc = "call", !.contoursVec = found]

\* getContours up to the loop: findRawContours has filled contoursVec.
GetContoursEnter ==
  /\ gc.pc = "call"
  /\ gc' = [gc EXCEPT !.pc = "loop", !.i = 0, !.contoursOut = <<>>,
                      !.stats = [NoStats EXCEPT
                                   !.totalContours = Len(gc.contoursVec)]]
  /\ UNCHANGED <<Config, kp, pix, proj, opt, sp, img, dw, cu>>

\* One pass of the loop over contoursVec (i counts from 0).
GetContoursStep ==
  /\ gc.pc = "loop"
  /\ gc.i < Len(gc.contoursVec)
  /\ LET contour == gc.contoursVec[gc.i + 1]
         rect == contour.rect
         geometryResult == filterContourByGeometry(rect, Config)
         thicknessResult == filterContourByThickness(contour.colSums, Config)
     IN gc' =
          IF geometryResult # "valid"
            THEN [gc EXCEPT !.i = @ + 1,
                            !.stats = rejected(@, geometryResult, geometryResult, rect)]
          ELSE IF thicknessResult # "valid"
            THEN [gc EXCEPT !.i = @ + 1,
                            !.stats = rejected(@, "thickness", "thickness", rect)]
          ELSE IF momentsNull(contour)
            THEN [gc EXCEPT !.i = @ + 1,
                            !.stats = rejected(@, "zeroMoments", "moments", rect)]
          ELSE [gc EXCEPT !.i = @ + 1,
                          !.contoursOut = Append(@, [rect |-> rect, from |-> gc.i + 1]),
                          !.stats.acceptedContours = @ + 1]
  /\ UNCHANGED <<Config, kp, pix, proj, opt, sp, img, dw, cu>>

GetContoursReturn ==
  /\ gc.pc = "loop"
  /\ gc.i >= Len(gc.contoursVec)
  /\ gc' = [gc EXCEPT !.pc = "done", !.lastContourStats = gc.stats,
                      !.ret = gc.contoursOut]
  /\ UNCHANGED <<Config, kp, pix, proj, opt, sp, img, dw, cu>>

NextContours == GetContoursEnter \/ GetContoursStep \/ GetContoursReturn

SpecContours == InitContours /\ [][NextContours]_vars

\* a >= b for numbers.
AtLeast(a, b) == ~IsNaN(a) /\ ~IsNaN(b) /\ (a = b \/ NLt(b, a))

\* The largest entry of a sequence of naturals.
Largest(q) == CHOOSE m \in {q[j] : j \in DOMAIN q} : \A j \in DOMAIN q : q[j] <= m

\* The five conditions of the claim for a detected contour.
Qualifies(contour) ==
  /\ AtLeast(Int2Num(contour.rect.width), Config.TEXT_MIN_WIDTH)
  /\ AtLeast(Int2Num(contour.rect.height), Config.TEXT_MIN_HEIGHT)
  /\ AtLeast(Int2Num(contour.rect.width),
             NMul(Config.TEXT_MIN_ASPECT, Int2Num(contour.rect.height)))
  /\ AtLeast(Config.TEXT_MAX_THICKNESS, Int2Num(Largest(contour.colSums)))
  /\ contour.m00 # 0

----------------------------------------------------------------------------
(* The pipeline over the input files (src/image.js, src/debug-metrics.js) *)

MaxImages == 2

MaxFound == 3

\* DebugMetrics.add(key, value): _metrics[key] is overwritten.  A value is
\* represented by the number of the file whose processing recorded it.
add(metrics, key, by) ==
  {e \in metrics : e.key # key} \cup {[key |-> key, by |-> by]}

addAll(metrics, keys, by) ==
  {e \in metrics : e.key \notin keys} \cup {[key |-> k, by |-> by] : k \in keys}

\* DebugMetrics.getAll(): a copy of _metrics.
getAll(metrics) == metrics

\* What one image holds, as far as the pipeline branches on it: the numbers of
\* text contours and of line contours that pass the filter, and the numbers
\* of spans assembleSpans forms of each.
ImageInputs ==
  {in \in [text : 0..MaxFound, textSpans : 0..MaxFound,
           lines : 0..MaxFound, lineSpans : 0..MaxFound] :
     in.textSpans <= in.text /\ in.lineSpans <= in.lines}

\* A Mat is represented by the number of delete() calls made on it; -1 is no
\* Mat (null).
isDeleted(mat) == mat > 0

\* if (m && !m.isDeleted()) m.delete()
deleteOnce(mat) == IF mat # -1 /\ ~isDeleted(mat) THEN mat + 1 ELSE mat

\* mask.contours(): n ContourInfo objects of one contourInfo() call, each
\* with a contour Mat (contour.clone()) and a mask Mat (the tight mask).
newContours(n, call) == [j \in 1..n |-> [call |-> call, contour |-> 0, mask |-> 0]]

\* ContourInfo.destroy()
destroyContourInfo(c) ==
  [c EXCEPT !.contour = deleteOnce(@), !.mask = deleteOnce(@)]

\* The number of Mats among the listed ones that a delete-if-live deletes.
liveCount(mats) == Cardinality({j \in DOMAIN mats : mats[j] = 0})

InitImage ==
  /\ Config = DefaultConfig
  /\ kp = KpIdle
  /\ pix = PixIdle
  /\ proj = ProjIdle
  /\ opt = OptIdle
  /\ sp = SpIdle
  /\ gc = GcIdle /\ dw = DwIdle /\ cu = CuIdle
  /\ img = [ImgIdle EXCEPT !.pc = "main"]

\* main: the next input file, new WarpedImage(inputFile).
NewWarpedImage ==
  /\ img.pc \in {"main", "destroyed"}
  /\ img.file < MaxImages
  /\ \E in \in ImageInputs :
       img' = [ImgIdle EXCEPT !.pc = "new", !.file = img.file + 1, !.input = in,
                              !.metrics = img.metrics]
  /\ UNCHANGED <<Config, kp, pix, proj, opt, sp, gc, dw, cu>>

\* process(): load() and the image_dims metric.
Load ==
  /\ img.pc = "new"
  /\ img' = [img EXCEPT !.pc = "loaded", !.cv2_img = 0, !.small = 0,
                        !.metrics = add(@, "image_dims", img.file)]
  /\ UNCHANGED <<Config, kp, pix, proj, opt, sp, gc, dw, cu>>

CalculatePageExtents ==
  /\ img.pc = "loaded"
  /\ img' = [img EXCEPT !.pc = "extents", !.pagemask = 0,
                        !.metrics = add(@, "page_extents", img.file)]
  /\ UNCHANGED <<Config, kp, pix, proj, opt, sp, gc, dw, cu>>

\* this.contour_list = this.contourInfo(true) and the contour metrics.
DetectContours ==
  /\ img.pc = "extents"
  /\ img' = [img EXCEPT
               !.pc = "contours",
               !.cinfos = newContours(img.input.text, 1),
               !.detected = Append(@, TRUE),
               !.contour_list = [j \in 1..img.input.text |-> j],
               !.metrics = addAll(@, {"mask_stats_text", "contours_count",
                                      "contours_stats", "contours_sample",
                                      "contours_rects"}, img.file)]
  /\ UNCHANGED <<Config, kp, pix, proj, opt, sp, gc, dw, cu>>

\* A faulty attemptReassembleSpans that takes the new result when it has as
\* many spans as the previous one.
attemptReassembleSpansAtLeast(prevResult, newResult) ==
  IF newResult.spans >= prevResult.spans THEN newResult ELSE prevResult

\* attemptReassembleSpans(prevResult), newResult being what assembleSpans
\* returns for the new contour_list.  A result is represented by the
\* contours it was assembled of and the number of its spans.
attemptReassembleSpans(prevResult, newResult) ==
  IF newResult.spans > prevResult.spans THEN newResult ELSE prevResult

\* if (result.spans.length < 3)
detectLines(result) == result.spans < 3

\* iterativelyAssembleSpans() with attemptReassembleSpans(), and the span
\* metrics.  detected lists the c_type of every contourInfo() call and
\* assembled the results of every assembleSpans() call.
IterativelyAssembleSpans ==
  /\ img.pc = "contours"
  /\ LET first == [of |-> "text", spans |-> img.input.textSpans]
         retry == detectLines(first)
         second == [of |-> "lines", spans |-> img.input.lineSpans]
         result == IF retry THEN attemptReassembleSpans(first, second) ELSE first
         n == Len(img.cinfos)
     IN img' = [img EXCEPT
                  !.pc = "spans",
                  !.cinfos = IF retry THEN @ \o newContours(img.input.lines, 2) ELSE @,
                  !.contour_list =
                     IF retry THEN [j \in 1..img.input.lines |-> n + j] ELSE @,
                  !.detected = IF retry THEN Append(@, FALSE) ELSE @,
                  !.assembled = IF retry THEN <<first, second>> ELSE <<first>>,
                  !.result = result,
                  !.spans = result.spans,
                  !.spanStats = TRUE,
                  !.metrics =
                     addAll(@, (IF retry THEN {"mask_stats_lines"} ELSE {})
                                 \cup {"spans_count", "spans_sample", "span_stats"},
                            img.file)]
  /\ UNCHANGED <<Config, kp, pix, proj, opt, sp, gc, dw, cu>>

\* if (spans.length < 1) return
SkipImage ==
  /\ img.pc = "spans"
  /\ img.spans < 1
  /\ img' = [img EXCEPT !.pc = "returned"]
  /\ UNCHANGED <<Config, kp, pix, proj, opt, sp, gc, dw, cu>>

\* The rest of process(): sampling, keypoints, default parameters,
\* optimisation, page dimensions, remapping, and their metrics.
FinishProcess ==
  /\ img.pc = "spans"
  /\ img.spans >= 1
  /\ img' = [img EXCEPT
               !.pc = "returned",
               !.written = TRUE,
               !.metrics =
                  addAll(@, {"span_point_counts", "span_points_sample",
                             "keypoint_axes", "keypoint_axis_sums",
                             "keypoint_corners", "keypoint_ycoords",
                             "keypoint_xcoords_lengths", "keypoint_xcoords_sample",
                             "keypoint_span_axes_count", "keypoint_span_axes",
                             "keypoint_span_weights", "keypoints_count",
                             "keypoints_sample", "dstpoints", "initial_params",
                             "initial_cost", "final_params", "final_cost",
                             "optimization_time", "page_dims"}, img.file)]
  /\ UNCHANGED <<Config, kp, pix, proj, opt, sp, gc, dw, cu>>

\* destroy(), the first call or a later one.
Destroy ==
  /\ img.pc \in {"returned", "destroyed"}
  /\ img.destroys < 2
  /\ img' = [img EXCEPT
               !.pc = "destroyed",
               !.destroys = @ + 1,
               !.cv2_img = deleteOnce(@),
               !.small = deleteOnce(@),
               !.pagemask = deleteOnce(@),
               !.cinfos = [j \in DOMAIN @ |->
                             IF \E l \in DOMAIN img.contour_list : img.contour_list[l] = j
                             THEN destroyContourInfo(@[j]) ELSE @[j]],
               !.lastDeleted =
                  liveCount(<<img.cv2_img, img.small, img.pagemask>>)
                  + liveCount([l \in DOMAIN img.contour_list |->
                                 img.cinfos[img.contour_list[l]].contour])
                  + liveCount([l \in DOMAIN img.contour_list |->
                                 img.cinfos[img.contour_list[l]].mask])]
  /\ UNCHANGED <<Config, kp, pix, proj, opt, sp, gc, dw, cu>>

NextImage ==
  \/ NewWarpedImage
  \/ Load
  \/ CalculatePageExtents
  \/ DetectContours
  \/ IterativelyAssembleSpans
  \/ SkipImage
  \/ FinishProcess
  \/ Destroy

SpecImage == InitImage /\ [][NextImage]_vars

\* C14: after process() returns, early or not, DebugMetrics.getAll() holds
\* only values recorded during that call, none left from an earlier image.
C14_MetricsOfThisCall ==
  img.pc = "returned" => \A e \in getAll(img.metrics) : e.by = img.file

\* The second image is skipped for lack of spans, and getAll() still holds
\* the page dimensions recorded for the first.
C14_StaleMetric ==
  /\ img.pc = "returned"
  /\ img.file = 2
  /\ img.spans < 1
  /\ [key |-> "page_dims", by |-> 1] \in getAll(img.metrics)

\* C15: after process() and destroy(), every ContourInfo created by a
\* contourInfo() call of that run has its contour Mat and its mask Mat
\* deleted, no Mat is deleted twice, and a second destroy() deletes nothing.
C15_AllContoursReleased ==
  img.pc = "destroyed" =>
    /\ \A j \in DOMAIN img.cinfos :
         isDeleted(img.cinfos[j].contour) /\ isDeleted(img.cinfos[j].mask)
    /\ \A j \in DOMAIN img.cinfos :
         img.cinfos[j].contour <= 1 /\ img.cinfos[j].mask <= 1
    /\ img.cv2_img <= 1 /\ img.small <= 1 /\ img.pagemask <= 1
    /\ img.destroys = 2 => img.lastDeleted = 0

\* The text contours formed fewer than three spans, the line contours took
\* their place in contour_list, and after destroy() a text contour still has
\* both Mats.
C15_LeakedTextContour ==
  /\ img.pc = "destroyed"
  /\ \E j \in DOMAIN img.cinfos :
       /\ img.cinfos[j].call = 1
       /\ img.cinfos[j].contour = 0
       /\ img.cinfos[j].mask = 0

\* C24: iterativelyAssembleSpans detects line contours and assembles again
\* at most once, and only when the text contours gave fewer than 3 spans; it
\* returns the second result only when that has strictly more spans than the
\* first, else the first; with 3 or more spans nothing is detected again.
\* process() returns with written false exactly when no span was returned.
C24_RetryOnce ==
  /\ img.pc \in {"spans", "returned"} =>
       LET first == [of |-> "text", spans |-> img.input.textSpans]
           second == [of |-> "lines", spans |-> img.input.lineSpans]
       IN /\ img.input.textSpans >= 3 =>
               /\ img.detected = <<TRUE>>
               /\ img.assembled = <<first>>
               /\ img.result = first
          /\ img.input.textSpans < 3 =>
               /\ img.detected = <<TRUE, FALSE>>
               /\ img.assembled = <<first, second>>
               /\ img.result =
                    IF img.input.lineSpans > img.input.textSpans THEN second ELSE first
          /\ img.spans = img.result.spans
  /\ img.pc # "returned" /\ img.pc # "destroyed" => ~img.written
  /\ img.pc = "returned" => (img.written <=> img.spans >= 1)

\* Text and lines both gave two spans: the first result was kept, and
\* process() went on to write its output with fewer than three spans.
C24_Witness ==
  /\ img.pc = "returned"
  /\ img.detected = <<TRUE, FALSE>>
  /\ img.input.textSpans = 2
  /\ img.input.lineSpans = 2
  /\ img.result.of = "text"
  /\ img.written

\* Neither text nor lines gave a span, and process() returned without
\* writing.
C24_Skipped ==
  /\ img.pc = "returned"
  /\ img.detected = <<TRUE, FALSE>>
  /\ img.spans = 0
  /\ ~img.written

----------------------------------------------------------------------------
(* Configuration updates (src/config.js) *)

MaxUpdates == 3

\* Arguments of updateConfig: one key, two keys, a key Config does not have,
\* the value a key already has, and the empty object.
UpdateInputs ==
  {[FOCAL_LENGTH |-> Rat(3, 2), DEBUG_LEVEL |-> 2],
   [FOCAL_LENGTH |-> Rat(3, 2)],
   [FOCAL_LENGTH |-> Int2Num(2)],
   [DEBUG_LEVEL |-> 0],
   [TEXT_MIN_WIDTH |-> Int2Num(20), EDGE_MAX_LENGTH |-> Int2Num(50)],
   [MY_OPTION |-> 1],
   <<>>}

InitConfig ==
  /\ Config = DefaultConfig
  /\ kp = KpIdle
  /\ pix = PixIdle
  /\ proj = ProjIdle
  /\ opt = OptIdle
  /\ sp = SpIdle
  /\ gc = GcIdle /\ img = ImgIdle /\ dw = DwIdle
  /\ cu = [CuIdle EXCEPT !.pc = "loaded"]

\* One call updateConfig(newConfig); cu keeps the argument and the Config
\* the call found.
UpdateConfigCall ==
  /\ cu.pc \in {"loaded", "updated"}
  /\ cu.calls < MaxUpdates
  /\ \E newConfig \in UpdateInputs :
       /\ Config' = updateConfig(Config, newConfig)
       /\ cu' = [pc |-> "updated", before |-> Config, newConfig |-> newConfig,
                 calls |-> cu.calls + 1]
  /\ UNCHANGED <<kp, pix, proj, opt, sp, gc, img, dw>>

NextConfig == UpdateConfigCall

SpecConfig == InitConfig /\ [][NextConfig]_vars

\* C16: updateConfig(u) sets Config[k] to u[k] for exactly the keys k of u and
\* leaves every other key of Config with the value it had; updateConfig({})
\* changes nothing.
C16_UpdateFrame ==
  cu.pc = "updated" =>
    /\ DOMAIN Config = DOMAIN cu.before \cup DOMAIN cu.newConfig
    /\ \A k \in DOMAIN cu.newConfig : Config[k] = cu.newConfig[k]
    /\ \A k \in DOMAIN cu.before \ DOMAIN cu.newConfig : Config[k] = cu.before[k]
    /\ DOMAIN cu.newConfig = {} => Config = cu.before

\* A third update, of TEXT_MIN_WIDTH and EDGE_MAX_LENGTH, finds a Config whose
\* FOCAL_LENGTH and DEBUG_LEVEL earlier updates have moved off the defaults,
\* and leaves them there.
C16_Witness ==
  /\ cu.pc = "updated"
  /\ cu.calls = 3
  /\ DOMAIN cu.newConfig = {"TEXT_MIN_WIDTH", "EDGE_MAX_LENGTH"}
  /\ cu.before.FOCAL_LENGTH = Int2Num(2)
  /\ cu.before.DEBUG_LEVEL = 2
  /\ Config.FOCAL_LENGTH = Int2Num(2)
  /\ Config.DEBUG_LEVEL = 2
  /\ Config.TEXT_MIN_WIDTH = Int2Num(20)

\* An update with the empty object after an update that changed Config.
C16_EmptyUpdate ==
  /\ cu.pc = "updated"
  /\ DOMAIN cu.newConfig = {}
  /\ Config # DefaultConfig
  /\ Config = cu.before

----------------------------------------------------------------------------
(* The remap maps (src/dewarp.js) *)

MAX_COORD == 100000

MaxSmall == 2

\* linspace(start, end, num): start + i * step for i = 0 .. num - 1.  For
\* num = 1 the step is a division by zero.
linspace(start, end, num) ==
  [i \in 1..num |->
     NAdd(start, NMul(Int2Num(i - 1), NDiv(NSub(end, start), Int2Num(num - 1))))]

\* The grid of page points, row by row.
pageXYCoords(pageDims, widthSmall, heightSmall) ==
  [i \in 1..(widthSmall * heightSmall) |->
     <<linspace(Zero, pageDims[1], widthSmall)[((i - 1) % widthSmall) + 1],
       linspace(Zero, pageDims[2], heightSmall)[((i - 1) \div widthSmall) + 1]>>]

\* A faulty clamp that bounds a coordinate from above only.
clampCoordAbove(v) == IF NLt(Int2Num(MAX_COORD), v) THEN Int2Num(MAX_COORD) ELSE v

\* if (v > MAX_COORD) v = MAX_COORD; if (v < -MAX_COORD) v = -MAX_COORD
clampCoord(v) ==
  IF NLt(Int2Num(MAX_COORD), v) THEN Int2Num(MAX_COORD)
  ELSE IF NLt(v, Int2Num(-MAX_COORD)) THEN Int2Num(-MAX_COORD)
  ELSE v

\* The store of a number into a CV_32F Mat rounds it to the grid of floats,
\* here to the grid of the model.
floatStore(v) == Fl(v)

\* Page poses: the flat page at distance 1, a page through the camera centre
\* (every division is by zero), and pages a millionth in front of the camera,
\* centred and shifted, whose projections are far outside the image, and a
\* curved page that meets the camera centre at x = 0 only.
RemapParams ==
  {<<Zero, Zero, Zero, Zero, Zero, One, Zero, Zero>>,
   <<Zero, Zero, Zero, Zero, Zero, Zero, Rat(1, 2), Zero>>,
   <<Zero, Zero, Zero, Zero, Zero, Zero, Zero, Zero>>,
   <<Zero, Zero, Zero, Zero, Zero, Rat(1, 1000000), Zero, Zero>>,
   <<Zero, Zero, Zero, Int2Num(-1), Int2Num(-1), Rat(1, 1000000), Zero, Zero>>}

RemapPageDims == {<<One, One>>, <<Int2Num(2), One>>, <<Zero, One>>}

InitRemap ==
  /\ Config = DefaultConfig
  /\ kp = KpIdle
  /\ pix = PixIdle
  /\ proj = ProjIdle
  /\ opt = OptIdle
  /\ sp = SpIdle
  /\ gc = GcIdle /\ img = ImgIdle /\ cu = CuIdle
  /\ \E widthSmall \in 1..MaxSmall, heightSmall \in 1..MaxSmall,
        pageDims \in RemapPageDims, params \in RemapParams :
       dw = [DwIdle EXCEPT !.pc = "call", !.widthSmall = widthSmall,
                           !.heightSmall = heightSmall, !.pageDims = pageDims,
                           !.params = params, !.img = [rows |-> 4, cols |-> 2]]

\* buildRemapMaps up to the loop: the page grid, its projection, the pixel
\* coordinates, and the two maps, not yet written.
BuildRemapMapsEnter ==
  /\ dw.pc = "call"
  /\ dw' = [dw EXCEPT
              !.pc = "loop", !.i = 0, !.invalidPointCount = 0,
              !.imagePoints =
                 norm2pix(dw.img,
                          projectXY(pageXYCoords(dw.pageDims, dw.widthSmall,
                                                 dw.heightSmall),
                                    dw.params, Config),
                          FALSE),
              !.mapXSmall = <<>>, !.mapYSmall = <<>>]
  /\ UNCHANGED <<Config, kp, pix, proj, opt, sp, gc, img, cu>>

\* One pass of the loop over imagePoints (i counts from 0); the maps are
\* written row by row, so entry i + 1 of the model's map is (row, col).
RemapStep ==
  /\ dw.pc = "loop"
  /\ dw.i < Len(dw.imagePoints)
  /\ LET row == dw.i \div dw.widthSmall
         col == dw.i % dw.widthSmall
         pt == dw.imagePoints[dw.i + 1]
         invalid == ~IsFinite(pt[1]) \/ ~IsFinite(pt[2])
         x == IF invalid THEN Zero ELSE pt[1]
         y == IF invalid THEN Zero ELSE pt[2]
     IN IF row < dw.heightSmall /\ col < dw.widthSmall
        THEN dw' = [dw EXCEPT
                      !.i = @ + 1,
                      !.invalidPointCount = IF invalid THEN @ + 1 ELSE @,
                      !.mapXSmall = Append(@, floatStore(clampCoord(x))),
                      !.mapYSmall = Append(@, floatStore(clampCoord(y)))]
        ELSE dw' = [dw EXCEPT !.i = @ + 1]
  /\ UNCHANGED <<Config, kp, pix, proj, opt, sp, gc, img, cu>>

\* After the loop: the warning, and the maps handed to cv.resize.
BuildRemapMapsReturn ==
  /\ dw.pc = "loop"
  /\ dw.i >= Len(dw.imagePoints)
  /\ dw' = [dw EXCEPT !.pc = "done"]
  /\ UNCHANGED <<Config, kp, pix, proj, opt, sp, gc, img, cu>>

NextRemap == BuildRemapMapsEnter \/ RemapStep \/ BuildRemapMapsReturn

SpecRemap == InitRemap /\ [][NextRemap]_vars

InBound(v) ==
  /\ IsFinite(v)
  /\ ~NLt(Int2Num(MAX_COORD), v)
  /\ ~NLt(v, Int2Num(-MAX_COORD))

Invalid(pt) == ~IsFinite(pt[1]) \/ ~IsFinite(pt[2])

\* What the claim says is written for a component v of a valid point that is
\* out of bound: the bound on its side.
BoundOf(v) ==
  IF NLt(Int2Num(MAX_COORD), v) THEN Int2Num(MAX_COORD) ELSE Int2Num(-MAX_COORD)

C17_InvalidReplaced ==
  /\ dw.pc = "done"
  /\ dw.invalidPointCount > 0
  /\ dw.invalidPointCount < dw.i

----------------------------------------------------------------------------
(* The page axes of keypointsFromSamples (src/spans.js) *)

MaxAxisSpans == 3

\* Math.abs(cXY) > 1e-9, decided for the values the inputs give: 0, and
\* those of at least 1/1000.
offAxis(cXY) ==
  CASE cXY.n = 0 -> FALSE
    [] ~NLt(NAbs(cXY), Rat(1, 1000)) -> TRUE

\* [Math.cos(theta), Math.sin(theta)] for theta = Math.atan2(y, x), (x, y)
\* not the origin: the vector (x, y) scaled to length 1.
cosSinAtan2(y, x, r) == <<NDiv(x, r), NDiv(y, r)>>

\* if (vx < 0) { vx = -vx; vy = -vy }
flipRight(v) == IF NLt(v[1], Zero) THEN <<NNeg(v[1]), NNeg(v[2])>> ELSE v

\* The branches of getPrincipalAxis on the covariance sums.
axisOf(cXX, cXY, cYY, L1) ==
  flipRight(IF offAxis(cXY)
            THEN cosSinAtan2(NNeg(NSub(cXX, L1)), cXY,
                             NSqrt(NAdd(NMul(cXY, cXY),
                                        NMul(NSub(cXX, L1), NSub(cXX, L1)))))
            ELSE IF ~NLt(cXX, cYY) THEN <<One, Zero>> ELSE <<Zero, One>>)

\* T = cXX + cYY, D = cXX * cYY - cXY * cXY,
\* L1 = T / 2 + Math.sqrt(Math.max(0, (T * T) / 4 - D))
largestEigenvalue(cXX, cXY, cYY) ==
  NAdd(NDiv(NAdd(cXX, cYY), Int2Num(2)),
       NSqrt(NMax(Zero,
                  NSub(NDiv(NMul(NAdd(cXX, cYY), NAdd(cXX, cYY)), Int2Num(4)),
                       NSub(NMul(cXX, cYY), NMul(cXY, cXY))))))

\* The sum over the points of the product of the deviations of coordinates a
\* and b from their means.
RECURSIVE covSum(_, _, _, _, _, _)
covSum(points, a, b, meanA, meanB, k) ==
  IF k > Len(points) THEN Zero
  ELSE NAdd(NMul(NSub(points[k][a], meanA), NSub(points[k][b], meanB)),
            covSum(points, a, b, meanA, meanB, k + 1))

RECURSIVE coordSum(_, _, _)
coordSum(points, a, k) ==
  IF k > Len(points) THEN Zero
  ELSE NAdd(points[k][a], coordSum(points, a, k + 1))

axisOfSums(cXX, cXY, cYY) == axisOf(cXX, cXY, cYY, largestEigenvalue(cXX, cXY, cYY))

principalAxisAt(points, meanX, meanY) ==
  axisOfSums(covSum(points, 1, 1, meanX, meanY, 1),
           covSum(points, 1, 2, meanX, meanY, 1),
           covSum(points, 2, 2, meanX, meanY, 1))

\* getPrincipalAxis(points)
getPrincipalAxis(points) ==
  IF Len(points) < 2 THEN <<One, Zero>>
  ELSE principalAxisAt(points,
                       NDiv(coordSum(points, 1, 1), Int2Num(Len(points))),
                       NDiv(coordSum(points, 2, 1), Int2Num(Len(points))))

\* The chord from the first point of a span to its last.
chordLength(points) ==
  NSqrt(NAdd(NMul(NSub(points[Len(points)][1], points[1][1]),
                  NSub(points[Len(points)][1], points[1][1])),
             NMul(NSub(points[Len(points)][2], points[1][2]),
                  NSub(points[Len(points)][2], points[1][2]))))

\* avgVx = allEvecX / allWeights, avgVy = allEvecY / allWeights
averageAxis(allEvecX, allEvecY, allWeights) ==
  <<NDiv(allEvecX, allWeights), NDiv(allEvecY, allWeights)>>

\* Spans of sample points in normalized coordinates: along the x axis, along
\* the y axis, along (3, 4) and (3, -4), a single point, a span that ends
\* where it began, and three points along the x axis.
P2(xn, yn, d) == <<Rat(xn, d), Rat(yn, d)>>

SpanPointChoices ==
  {<<P2(0, 0, 1), P2(1, 0, 1)>>,
   <<P2(0, 0, 1), P2(0, 1, 1)>>,
   <<P2(0, 0, 1), P2(3, 4, 10)>>,
   <<P2(0, 0, 1), P2(3, -4, 10)>>,
   <<P2(0, 0, 1)>>,
   <<P2(1, 0, 2), P2(0, 0, 1), P2(1, 0, 2)>>,
   <<P2(0, 0, 1), P2(1, 0, 2), P2(1, 0, 1)>>}

InitAxes ==
  /\ Config = DefaultConfig
  /\ RestIdle
  /\ pix = PixIdle
  /\ proj = ProjIdle
  /\ opt = OptIdle
  /\ sp = SpIdle
  /\ \E n \in 0..MaxAxisSpans : \E spanPoints \in [1..n -> SpanPointChoices] :
       kp = [pc |-> "axes", spanPoints |-> spanPoints, i |-> 1,
             allEvecX |-> Zero, allEvecY |-> Zero, allWeights |-> Zero,
             spanAxes |-> <<>>, spanWeights |-> <<>>,
             x_dir |-> <<>>, y_dir |-> <<>>]

\* The body of the loop of computeGlobalPageAxes for a span of two points or
\* more, v its axis and weight its chord length.
axesAdd(k, v, weight) ==
  [k EXCEPT !.i = @ + 1,
            !.spanAxes = Append(@, v),
            !.spanWeights = Append(@, weight),
            !.allEvecX = NAdd(@, NMul(v[1], weight)),
            !.allEvecY = NAdd(@, NMul(v[2], weight)),
            !.allWeights = NAdd(@, weight)]

\* for (const points of spanPoints): one turn.
AxesSpan ==
  /\ kp.pc = "axes"
  /\ kp.i <= Len(kp.spanPoints)
  /\ kp' = IF Len(kp.spanPoints[kp.i]) < 2
           THEN [kp EXCEPT !.i = @ + 1]
           ELSE axesAdd(kp, getPrincipalAxis(kp.spanPoints[kp.i]),
                        chordLength(kp.spanPoints[kp.i]))
  /\ UNCHANGED <<Config, pix, proj, opt, sp, gc, img, dw, cu>>

\* let x_dir = [avgVx, avgVy]; if (x_dir[0] < 0) x_dir = [-x_dir[0], -x_dir[1]];
\* y_dir = [-x_dir[1], x_dir[0]]
axesEnd(k, x_dir) ==
  [k EXCEPT !.pc = "axes-done", !.x_dir = x_dir,
            !.y_dir = <<NNeg(x_dir[2]), x_dir[1]>>]

\* After the loop: the default when allWeights === 0, the division, the
\* axes.
AxesReturn ==
  /\ kp.pc = "axes"
  /\ kp.i > Len(kp.spanPoints)
  /\ kp' = IF kp.allWeights = Zero
           THEN axesEnd([kp EXCEPT !.allEvecX = One, !.allEvecY = Zero,
                                   !.allWeights = One],
                        flipRight(averageAxis(One, Zero, One)))
           ELSE axesEnd(kp, flipRight(averageAxis(kp.allEvecX, kp.allEvecY,
                                                  kp.allWeights)))
  /\ UNCHANGED <<Config, pix, proj, opt, sp, gc, img, dw, cu>>

NextAxes == AxesSpan \/ AxesReturn

SpecAxes == InitAxes /\ [][NextAxes]_vars

Dot(u, v) == NAdd(NMul(u[1], v[1]), NMul(u[2], v[2]))

\* C27: the page axes are orthonormal: x_dir has length 1 and a
\* non-negative x component, y_dir is x_dir turned by 90 degrees, and with
\* total span weight zero x_dir = (1, 0) and y_dir = (0, 1).
C27_Orthonormal ==
  kp.pc = "axes-done" =>
    /\ Dot(kp.x_dir, kp.x_dir) = One
    /\ ~NLt(kp.x_dir[1], Zero)
    /\ kp.y_dir = <<NNeg(kp.x_dir[2]), kp.x_dir[1]>>
    /\ (\A k \in DOMAIN kp.spanWeights : kp.spanWeights[k] = Zero) =>
         kp.x_dir = <<One, Zero>> /\ kp.y_dir = <<Zero, One>>

\* Two spans of length 1, one along the x axis and one along the y axis:
\* x_dir = (1/2, 1/2), of length below 1.
C27_ShortAxis ==
  /\ kp.pc = "axes-done"
  /\ kp.spanAxes = <<<<One, Zero>>, <<Zero, One>>>>
  /\ kp.spanWeights = <<One, One>>
  /\ kp.x_dir = <<Rat(1, 2), Rat(1, 2)>>
  /\ kp.y_dir = <<Rat(-1, 2), Rat(1, 2)>>
  /\ NLt(Dot(kp.x_dir, kp.x_dir), One)

\* What does hold of the axes: the x component is not negative, y_dir is
\* x_dir turned by 90 degrees, x_dir is no longer than 1, and the default
\* axes are used when the total weight is zero.
C27_Perpendicular ==
  kp.pc = "axes-done" =>
    /\ ~NLt(kp.x_dir[1], Zero)
    /\ kp.y_dir = <<NNeg(kp.x_dir[2]), kp.x_dir[1]>>
    /\ Dot(kp.x_dir, kp.y_dir) = Zero
    /\ ~NLt(One, Dot(kp.x_dir, kp.x_dir))
    /\ (\A k \in DOMAIN kp.spanWeights : kp.spanWeights[k] = Zero) =>
         kp.x_dir = <<One, Zero>> /\ kp.y_dir = <<Zero, One>>

----------------------------------------------------------------------------
(* Output dimensions (src/utils.js, src/dewarp.js) *)

\* Math.round of a finite number: the nearest integer, a half going up.
MathRound(a) == (2 * a.n + a.d) \div (2 * a.d)

\* i % factor of two integers, factor positive: the sign is that of i.
Remainder(i, factor) == Sign(i) * (Abs(i) % factor)

\* A faulty rounding that moves an exact multiple up to the next one.
roundUpAlways(i, factor) == i + factor - Remainder(i, factor)

\* rem ? i + factor - rem : i, i being already rounded.
roundUp(i, factor) ==
  IF Remainder(i, factor) # 0 THEN i + factor - Remainder(i, factor) ELSE i

\* roundNearestMultiple(i, factor) for a finite i and an integer factor,
\* both numbers; the result is an integer.
roundNearestMultiple(i, factor) ==
  CASE IsFinite(i) /\ IsFinite(factor) /\ factor.d = 1 /\ factor.n > 0
         -> roundUp(MathRound(i), factor.n)

\* Arguments i = k/4 for k up to 4 * MaxRoundArg, and the factors.
MaxRoundArg == 20

RoundFactors == {1, 2, 3, 16}

InitRound ==
  /\ Config = DefaultConfig
  /\ kp = KpIdle
  /\ pix = PixIdle
  /\ proj = ProjIdle
  /\ opt = OptIdle
  /\ sp = SpIdle
  /\ gc = GcIdle /\ img = ImgIdle /\ cu = CuIdle
  /\ \E k \in 0..(4 * MaxRoundArg), factor \in RoundFactors :
       dw = [pc |-> "round", i |-> Rat(k, 4), factor |-> factor, ret |-> <<>>]

RoundNearestMultiple ==
  /\ dw.pc = "round"
  /\ dw' = [dw EXCEPT !.pc = "rounded",
                      !.ret = <<roundNearestMultiple(dw.i, Int2Num(dw.factor))>>]
  /\ UNCHANGED <<Config, kp, pix, proj, opt, sp, gc, img, cu>>

NextRound == RoundNearestMultiple

SpecRound == InitRound /\ [][NextRound]_vars

\* m is round(a): the integer with m - 1/2 <= a < m + 1/2.
IsRoundOf(m, a) == (2 * m - 1) * a.d <= 2 * a.n /\ 2 * a.n < (2 * m + 1) * a.d

\* C28: for a positive integer factor and a non-negative i,
\* roundNearestMultiple(i, factor) is the smallest multiple of factor that is
\* at least round(i): an exact multiple, 0 included, comes back unchanged and
\* every other value goes up to the next multiple.
C28_SmallestMultiple ==
  dw.pc = "rounded" =>
    \E m \in 0..(MaxRoundArg + 1) :
      /\ IsRoundOf(m, dw.i)
      /\ dw.ret[1] % dw.factor = 0
      /\ dw.ret[1] >= m
      /\ dw.ret[1] - dw.factor < m
      /\ m % dw.factor = 0 => dw.ret[1] = m

\* 16.5 is rounded to 17 and goes up to 32.
C28_Witness ==
  /\ dw.pc = "rounded"
  /\ dw.factor = 16
  /\ dw.i = Rat(33, 2)
  /\ dw.ret[1] = 32

\* 16 is a multiple of 16 and comes back unchanged, as does 0.
C28_ExactMultiple ==
  /\ dw.pc = "rounded"
  /\ dw.factor = 16
  /\ dw.i = Int2Num(16)
  /\ dw.ret[1] = 16

\* MAX_DIM of computeOutputDimensions.
MAX_DIM == 3000

\* What computeOutputDimensions is called with: pageDims, img.rows and the
\* --shrink of the command line.
PageDimInputs == {Rat(1, 2), Int2Num(1), Rat(3, 2), Int2Num(2), Rat(7, 3)}

ImgRowsInputs == {100, 480, 1000, 3200, 4000}

DecimateInputs == {Int2Num(16), Int2Num(1), Int2Num(10)}

InitDims ==
  /\ \E decimate \in DecimateInputs :
       Config = updateConfig(DefaultConfig, [REMAP_DECIMATE |-> decimate])
  /\ kp = KpIdle
  /\ pix = PixIdle
  /\ proj = ProjIdle
  /\ opt = OptIdle
  /\ sp = SpIdle
  /\ gc = GcIdle /\ img = ImgIdle /\ cu = CuIdle
  /\ \E pageWidthNorm \in PageDimInputs, pageHeightNorm \in PageDimInputs,
        imgRows \in ImgRowsInputs :
       dw = [pc |-> "dims", pageDims |-> <<pageWidthNorm, pageHeightNorm>>,
             imgRows |-> imgRows, width |-> 0, height |-> 0, clamped |-> FALSE,
             widthSmall |-> 0, heightSmall |-> 0, ret |-> <<>>]

\* width = roundNearestMultiple((height * pageWidthNorm) / pageHeightNorm, ...)
widthFor(height, pageDims, cfg) ==
  roundNearestMultiple(NDiv(NMul(Int2Num(height), pageDims[1]), pageDims[2]),
                       cfg.REMAP_DECIMATE)

\* height = 0.5 * pageHeightNorm * Config.OUTPUT_ZOOM * imgRows, rounded
heightFor(pageDims, imgRows, cfg) ==
  roundNearestMultiple(
    NMul(NMul(NMul(Rat(1, 2), pageDims[2]), cfg.OUTPUT_ZOOM), Int2Num(imgRows)),
    cfg.REMAP_DECIMATE)

\* The first statements of computeOutputDimensions: height, then width.
ComputeOutputDimensions ==
  /\ dw.pc = "dims"
  /\ dw' = [dw EXCEPT
              !.pc = "clamp",
              !.height = heightFor(dw.pageDims, dw.imgRows, Config),
              !.width = widthFor(heightFor(dw.pageDims, dw.imgRows, Config),
                                 dw.pageDims, Config)]
  /\ UNCHANGED <<Config, kp, pix, proj, opt, sp, gc, img, cu>>

Max2(a, b) == IF a > b THEN a ELSE b

\* roundNearestMultiple(dim * scale, Config.REMAP_DECIMATE) for
\* scale = MAX_DIM / Math.max(width, height)
clampDim(dim, width, height, cfg) ==
  roundNearestMultiple(NMul(Int2Num(dim), Rat(MAX_DIM, Max2(width, height))),
                       cfg.REMAP_DECIMATE)

\* if (width > MAX_DIM || height > MAX_DIM) { ... }
ClampOutput ==
  /\ dw.pc = "clamp"
  /\ dw' = IF dw.width > MAX_DIM \/ dw.height > MAX_DIM
           THEN [dw EXCEPT !.pc = "floor", !.clamped = TRUE,
                           !.width = clampDim(dw.width, dw.width, dw.height, Config),
                           !.height = clampDim(dw.height, dw.width, dw.height, Config)]
           ELSE [dw EXCEPT !.pc = "floor"]
  /\ UNCHANGED <<Config, kp, pix, proj, opt, sp, gc, img, cu>>

\* Math.floor(dim / Config.REMAP_DECIMATE), dim an integer
smallDim(dim, cfg) == (dim * cfg.REMAP_DECIMATE.d) \div cfg.REMAP_DECIMATE.n

\* heightSmall, widthSmall and the return.
ReturnDimensions ==
  /\ dw.pc = "floor"
  /\ dw' = [dw EXCEPT
              !.pc = "returned",
              !.heightSmall = smallDim(dw.height, Config),
              !.widthSmall = smallDim(dw.width, Config),
              !.ret = <<[width |-> dw.width, height |-> dw.height,
                         widthSmall |-> smallDim(dw.width, Config),
                         heightSmall |-> smallDim(dw.height, Config)]>>]
  /\ UNCHANGED <<Config, kp, pix, proj, opt, sp, gc, img, cu>>

NextDims == ComputeOutputDimensions \/ ClampOutput \/ ReturnDimensions

SpecDims == InitDims /\ [][NextDims]_vars

\* C29: for positive page dimensions and image height the width and height
\* returned are multiples of REMAP_DECIMATE, neither exceeds MAX_DIM, and
\* widthSmall and heightSmall are width and height divided by
\* REMAP_DECIMATE.
C29_WithinMaxDim ==
  dw.pc = "returned" =>
    /\ dw.ret[1].width % Config.REMAP_DECIMATE.n = 0
    /\ dw.ret[1].height % Config.REMAP_DECIMATE.n = 0
    /\ dw.ret[1].width <= MAX_DIM
    /\ dw.ret[1].height <= MAX_DIM
    /\ dw.ret[1].widthSmall * Config.REMAP_DECIMATE.n = dw.ret[1].width
    /\ dw.ret[1].heightSmall * Config.REMAP_DECIMATE.n = dw.ret[1].height

\* A page twice as high as wide in an image of 3200 rows, REMAP_DECIMATE 16:
\* 1600 x 3200 is clamped to 1504 x 3008.
C29_AboveMaxDim ==
  /\ dw.pc = "returned"
  /\ Config.REMAP_DECIMATE = Int2Num(16)
  /\ dw.pageDims = <<Int2Num(1), Int2Num(2)>>
  /\ dw.imgRows = 3200
  /\ dw.clamped
  /\ dw.ret[1].width = 1504
  /\ dw.ret[1].height = 3008

\* What does hold of the dimensions returned: they are multiples of
\* REMAP_DECIMATE, widthSmall and heightSmall are the quotients, and neither
\* dimension exceeds MAX_DIM by REMAP_DECIMATE or more.
C29_Multiples ==
  dw.pc = "returned" =>
    /\ dw.ret[1].width % Config.REMAP_DECIMATE.n = 0
    /\ dw.ret[1].height % Config.REMAP_DECIMATE.n = 0
    /\ dw.ret[1].width < MAX_DIM + Config.REMAP_DECIMATE.n
    /\ dw.ret[1].height < MAX_DIM + Config.REMAP_DECIMATE.n
    /\ dw.ret[1].widthSmall * Config.REMAP_DECIMATE.n = dw.ret[1].width
    /\ dw.ret[1].heightSmall * Config.REMAP_DECIMATE.n = dw.ret[1].height

----------------------------------------------------------------------------
(* The loops of minimize, for any objective *)

\* The objective is any function: what it returns at each call, NaN and the
\* infinities included, is an input, and with it the outcome of every test
\* the code makes on a value or on a point computed from values.  Here each
\* such outcome is a free choice, and the state keeps the loop counters:
\* iter of minimize, i of its sweep, the counters of bracketMinimum and of
\* brentSearch (each 0 outside its loop), the line searches made in the
\* current outer iteration, and whether a loop has run up to its cap.
InitLoops ==
  /\ Config = DefaultConfig
  /\ RestIdle
  /\ kp = KpIdle
  /\ pix = PixIdle
  /\ proj = ProjIdle
  /\ sp = SpIdle
  /\ \E n \in 1..MaxDims, maxIter \in 0..MaxIterCap :
       opt = [pc |-> "call", n |-> n, maxIter |-> maxIter, iter |-> 0, i |-> 0,
              sweeps |-> 0, searches |-> 0, expansions |-> 0, passes |-> 0,
              after |-> "none", bracketCap |-> FALSE, brentCap |-> FALSE]

\* minimize up to its loop.
LoopsEnter ==
  /\ opt.pc = "call"
  /\ opt' = [opt EXCEPT !.pc = "loop", !.iter = 1]
  /\ UNCHANGED <<Config, kp, pix, proj, sp, rest>>

\* for (let iter = 1; iter <= maxIter; iter++)
LoopsHead ==
  /\ opt.pc = "loop"
  /\ opt' = IF continueLoop(opt.iter, opt.maxIter)
            THEN [opt EXCEPT !.pc = "sweep", !.i = 0, !.searches = 0,
                             !.sweeps = @ + 1]
            ELSE [opt EXCEPT !.pc = "return"]
  /\ UNCHANGED <<Config, kp, pix, proj, sp, rest>>

\* for (let i = 0; i < n; i++): the call of lineSearchAlongDirection along
\* directions[i], or the end of the sweep.
LoopsSweep ==
  /\ opt.pc = "sweep"
  /\ opt' = IF opt.i < opt.n
            THEN [opt EXCEPT !.pc = "search", !.after = "sweep",
                             !.searches = @ + 1]
            ELSE [opt EXCEPT !.pc = "extrapolate"]
  /\ UNCHANGED <<Config, kp, pix, proj, sp, rest>>

\* The caller's statements after lineSearchAlongDirection returned.
searchDone(o) ==
  IF o.after = "sweep" THEN [o EXCEPT !.pc = "sweep", !.i = @ + 1, !.passes = 0]
  ELSE [o EXCEPT !.pc = "end", !.passes = 0]

\* lineSearchAlongDirection: a direction with maxComponent < 1e-12 is not
\* searched; else optimize1D, that is bracketMinimum first.
LoopsSearch ==
  /\ opt.pc = "search"
  /\ \E tiny \in BOOLEAN :
       opt' = IF tiny THEN searchDone(opt)
              ELSE [opt EXCEPT !.pc = "bracket"]
  /\ UNCHANGED <<Config, kp, pix, proj, sp, rest>>

\* bracketMinimum before its loop: uphill on both sides returns at once.
LoopsBracket ==
  /\ opt.pc = "bracket"
  /\ \E uphill \in BOOLEAN :
       opt' = [opt EXCEPT !.pc = IF uphill THEN "brent" ELSE "expand"]
  /\ UNCHANGED <<Config, kp, pix, proj, sp, rest>>

\* while (fc < fb && iter < 50) { ...; iter++ }: one test of the loop head.
LoopsExpand ==
  /\ opt.pc = "expand"
  /\ \E downhill \in BOOLEAN :
       opt' = IF bracketContinues(downhill, opt.expansions)
              THEN [opt EXCEPT !.expansions = @ + 1]
              ELSE [opt EXCEPT !.pc = "brent", !.expansions = 0,
                               !.bracketCap = @ \/ opt.expansions = BracketMax]
  /\ UNCHANGED <<Config, kp, pix, proj, sp, rest>>

\* for (let iter = 0; iter < ITMAX; iter++) of brentSearch: one test of the
\* loop head and one pass, which returns x or ends with iter++.
LoopsBrent ==
  /\ opt.pc = "brent"
  /\ \E close \in BOOLEAN :
       opt' = IF brentContinues(opt.passes) /\ ~close
              THEN [opt EXCEPT !.passes = @ + 1]
              ELSE searchDone([opt EXCEPT
                                 !.brentCap = @ \/ ~brentContinues(opt.passes)])
  /\ UNCHANGED <<Config, kp, pix, proj, sp, rest>>

\* fpt = objective(pt) and the test that leads to the line search along
\* delta.
LoopsExtrapolate ==
  /\ opt.pc = "extrapolate"
  /\ \E test \in BOOLEAN :
       opt' = IF test
              THEN [opt EXCEPT !.pc = "search", !.after = "delta",
                               !.searches = @ + 1]
              ELSE [opt EXCEPT !.pc = "end"]
  /\ UNCHANGED <<Config, kp, pix, proj, sp, rest>>

\* if (converged) break; else iter++
LoopsEnd ==
  /\ opt.pc = "end"
  /\ \E converged \in BOOLEAN :
       opt' = IF converged
              THEN [opt EXCEPT !.pc = "return"]
              ELSE [opt EXCEPT !.pc = "loop", !.iter = @ + 1]
  /\ UNCHANGED <<Config, kp, pix, proj, sp, rest>>

\* return { x: Array.from(x), fx }
LoopsReturn ==
  /\ opt.pc = "return"
  /\ opt' = [opt EXCEPT !.pc = "done"]
  /\ UNCHANGED <<Config, kp, pix, proj, sp, rest>>

NextLoops ==
  \/ LoopsEnter \/ LoopsHead \/ LoopsSweep \/ LoopsSearch \/ LoopsBracket
  \/ LoopsExpand \/ LoopsBrent \/ LoopsExtrapolate \/ LoopsEnd \/ LoopsReturn

\* minimize is a synchronous function: once called it runs, statement after
\* statement, whenever a statement is left to run.
SpecLoops == InitLoops /\ [][NextLoops]_vars /\ WF_vars(NextLoops)

\* C30: minimize terminates for every objective and every finite maxIter:
\* a line search makes at most 50 bracket expansions and at most 100 Brent
\* passes, an outer iteration makes at most n + 1 line searches, the outer
\* loop runs at most maxIter times, and the result is returned.
C30_Terminates ==
  /\ [](/\ opt.expansions <= 50
        /\ opt.passes <= 100
        /\ opt.searches <= opt.n + 1
        /\ opt.sweeps <= opt.maxIter)
  /\ <>(opt.pc = "done")

\* minimize has returned after maxIter iterations in two dimensions, in
\* which a bracket was expanded up to its cap, a Brent search ran up to
\* ITMAX, and the last iteration made n + 1 line searches.
C30_Witness ==
  /\ opt.pc = "done"
  /\ opt.n = 2
  /\ opt.maxIter = 2
  /\ opt.sweeps = opt.maxIter
  /\ opt.bracketCap
  /\ opt.brentCap
  /\ opt.searches = opt.n + 1

====
